---- MODULE Spec2Model ----
(***************************************************************************)
(* SnapWiz: the batch orchestrator of src/main.py (MainWindow), the        *)
(* installer thread (InstallerThread.run) and the history ledger           *)
(* (src/logger.py), as one state machine.                                   *)
(*                                                                          *)
(* Every Qt slot is one action: it runs to completion on the GUI thread.   *)
(* The answer the user gives to a modal question is an input of the slot.  *)
(* An InstallerThread runs concurrently with the GUI thread: each of its   *)
(* blocking calls (validate, verify, install) is one step, and its         *)
(* finished(bool, str) signal is queued to the GUI thread, which handles   *)
(* it in a later step.                                                      *)
(***************************************************************************)
EXTENDS Integers, Sequences, FiniteSets, TLC

\* ------------------------------------------------------------------ bounds
MaxQueue == 2          \* longest install queue explored
MaxAttempts == 2       \* installer threads started in one behaviour
MaxUrls == 2           \* paths carried by one file-dialog selection or drop

\* ------------------------------------------------------------- file system
\* A path is (stem, extension): os.path.splitext(path) = (stem, ext).
PathA == [stem |-> "/home/u/a", ext |-> ".deb"]
PathB == [stem |-> "/home/u/b", ext |-> ".RPM"]
PathC == [stem |-> "/home/u/c", ext |-> ".txt"]
PathGone == [stem |-> "/home/u/gone", ext |-> ".deb"]

\* The regular files of the host, the files the user picks in the file dialog
\* and the paths a drop can name.
ExistingFiles == {PathA, PathB, PathC}
DialogFiles == {PathA, PathB}
AllPaths == ExistingFiles \cup {PathGone}

\* str.lower() on the extensions above and on the checksums and checksum
\* types given to verify_package.
Lower(s) ==
    CASE s = ".RPM" -> ".rpm"
      [] s = ".DEB" -> ".deb"
      [] s = "AB12" -> "ab12"
      [] s = "MD5" -> "md5"
      [] OTHER -> s

get_supported_extensions == {".deb", ".rpm", ".snap", ".flatpak"}

is_supported_package(p) == Lower(p.ext) \in get_supported_extensions

isfile(p) == p \in ExistingFiles

validate_package(p) ==
    IF ~(p \in ExistingFiles) THEN FALSE
    ELSE Lower(p.ext) \in get_supported_extensions

\* ------------------------------------------------------------ Python lists
\* list[i] with Python's negative indices; raises IndexError outside.
PyIndexOK(q, i) == -Len(q) <= i /\ i < Len(q)
PyGet(q, i) == IF i >= 0 THEN q[i + 1] ELSE q[Len(q) + i + 1]
PyPop(q, i) == [k \in 1..(Len(q) - 1) |-> IF k <= i THEN q[k] ELSE q[k + 1]]
PyIn(x, q) == \E k \in 1..Len(q) : q[k] = x

SeqsUpTo(S, n) == UNION {[1..k -> S] : k \in 0..n}

VARIABLES
    install_queue,              \* MainWindow.install_queue
    current_installing_index,   \* MainWindow.current_installing_index
    batch_cancelled,            \* MainWindow.batch_cancelled
    install_btn,                \* enabled state of the four buttons
    cancel_btn,
    browse_btn,
    clear_queue_btn,
    progress_bar,               \* progress_bar.value()
    batch_progress_label,       \* <<done, total>> of "Overall: d of t packages"
    installer_thread,           \* id of the thread self.installer_thread names
    threads,                    \* InstallerThreads whose run() has not returned
    signals,                    \* finished(bool, str) emissions queued to the GUI thread, oldest first
    history,                    \* content of installation_history.json
    log_output,                 \* last batch status line written to log_output
    last_dialog,                \* question shown by the last finished-handler
    crashed,                    \* the process was aborted
    current_package,            \* MainWindow.current_package
    thread_count,               \* InstallerThreads constructed so far
    run_attempts,               \* package of every thread started since the last reset_after_batch
    logged,                     \* per history entry: the thread whose signal wrote it
    run_state,                  \* the InstallerThread stepped through run() on its own
    handler_call,               \* the PackageHandler call evaluated on its own
    retry_call                  \* the call through the retry engine evaluated on its own

vars == <<install_queue, current_installing_index, batch_cancelled, install_btn,
          cancel_btn, browse_btn, clear_queue_btn, progress_bar,
          batch_progress_label, installer_thread, threads, signals, history,
          log_output, last_dialog, crashed, current_package,
          thread_count, run_attempts, logged, run_state, handler_call,
                        retry_call>>

buttons == <<install_btn, cancel_btn, browse_btn, clear_queue_btn>>
ledger == <<history, logged>>
workers == <<installer_thread, threads, signals, thread_count, run_attempts,
            run_state, handler_call,
                        retry_call>>

\* MainWindow after construction.
InitWindow ==
    /\ install_queue = <<>>
    /\ current_installing_index = -1
    /\ batch_cancelled = FALSE
    /\ install_btn = FALSE
    /\ cancel_btn = FALSE
    /\ browse_btn = TRUE
    /\ clear_queue_btn = TRUE
    /\ progress_bar = 0
    /\ batch_progress_label = <<0, 0>>
    /\ installer_thread = 0
    /\ threads = {}
    /\ signals = <<>>
    /\ history = <<>>
    /\ log_output = "Ready"
    /\ last_dialog = "none"
    /\ crashed = FALSE
    /\ current_package = "None"
    /\ thread_count = 0
    /\ run_attempts = <<>>
    /\ logged = <<>>

Init ==
    /\ InitWindow
    /\ run_state = "idle"
    /\ handler_call = "idle"
    /\ retry_call = "idle"

\* ---------------------------------------------------------------- ledger
basename(p) == <<"basename", p.stem, p.ext>>

\* InstallLogger.log_installation with a readable, writable history file:
\* the stored list followed by the new entry.
log_installation(h, package_path, success) ==
    Append(h, [package |-> package_path,
               package_name |-> basename(package_path),
               success |-> success])

\* ------------------------------------------------------- queue display
\* update_queue_display ends by enabling the install button for a non-empty
\* queue: the value install_btn has after the call.
update_queue_display(q) == Len(q) > 0

\* ----------------------------------------------------- installer thread
\* InstallerThread(package_path, package_handler, verify_integrity,
\* verify_signature, checksum, checksum_type) before run() is entered.
\* valid, verified and install_calls record what run() has called so far,
\* finished_emits how often it has emitted finished(bool, str).
NewThread(id, package_path, verify_integrity, verify_signature, checksum) ==
    [id |-> id,
     package_path |-> package_path,
     verify_integrity |-> verify_integrity,
     verify_signature |-> verify_signature,
     checksum |-> checksum,
     pc |-> "validate",
     valid |-> "-",
     verified |-> "-",
     install_calls |-> 0,
     finished_emits |-> 0,
     success |-> FALSE]

\* Python's truth value of the checksum argument: None and "" are false.
Truthy(checksum) == checksum # "None" /\ checksum # ""

\* Step 2 of run: validate_package, then finished(False) or on to step 3.
run_validate(t) ==
    IF ~validate_package(t.package_path)
    THEN [t EXCEPT !.valid = "bad", !.pc = "emitted", !.success = FALSE,
                   !.finished_emits = @ + 1]
    ELSE [t EXCEPT !.valid = "ok", !.pc = "verify"]

\* run_verify as it would be if run() ignored the flag verify_package returns
\* and went on to the install step.
run_verify_ignoring_result(t, ok) ==
    IF t.verify_integrity \/ Truthy(t.checksum) \/ t.verify_signature
    THEN [t EXCEPT !.verified = IF ok THEN "ok" ELSE "bad", !.pc = "install"]
    ELSE [t EXCEPT !.verified = "skipped", !.pc = "install"]

\* Step 3 of run: verify_package when any verification is requested; ok is
\* the success flag verify_package returns.
run_verify(t, ok) ==
    IF t.verify_integrity \/ Truthy(t.checksum) \/ t.verify_signature
    THEN IF ~ok
         THEN [t EXCEPT !.verified = "bad", !.pc = "emitted",
                        !.success = FALSE, !.finished_emits = @ + 1]
         ELSE [t EXCEPT !.verified = "ok", !.pc = "install"]
    ELSE [t EXCEPT !.verified = "skipped", !.pc = "install"]

\* Step 6 of run: install_package, then finished(success, message); ok is the
\* success flag install_package returns.
run_install(t, ok) ==
    [t EXCEPT !.install_calls = @ + 1, !.pc = "emitted", !.success = ok,
              !.finished_emits = @ + 1]

\* run_except as it would be if the except branch only reported the step.
run_except_silent(t, called) ==
    [t EXCEPT !.install_calls = IF called THEN @ + 1 ELSE @,
              !.pc = "emitted", !.success = FALSE]

\* The except branch of run: an exception raised by a statement of the step
\* run() is at ends the try block and emits finished(False, "Error: ...").
\* called says whether install_package had returned before the statement
\* that raised (only in step 6).
run_except(t, called) ==
    [t EXCEPT !.install_calls = IF called THEN @ + 1 ELSE @,
              !.pc = "emitted", !.success = FALSE,
              !.finished_emits = @ + 1]

\* run() from entry to its finished emission; verify_ok and install_ok are
\* what verify_package and install_package return if run() calls them.
run(t, verify_ok, install_ok) ==
    LET a == run_validate(t)
        b == IF a.pc = "verify" THEN run_verify(a, verify_ok) ELSE a
    IN  IF b.pc = "install" THEN run_install(b, install_ok) ELSE b

\* The last value run() has sent through the progress signal when it is in
\* state t.
progress_of(t) ==
    CASE t.valid = "-" -> 5
      [] t.valid = "bad" -> 15
      [] t.verified = "-" -> 20
      [] t.verified = "bad" -> 25
      [] t.pc = "install" -> 60
      [] t.success -> 100
      [] OTHER -> 60

\* ------------------------------------------------------- orchestrator
\* reset_after_batch as it would be without install_queue.clear().
reset_after_batch_keeping_queue ==
    /\ browse_btn' = TRUE
    /\ clear_queue_btn' = TRUE
    /\ cancel_btn' = FALSE
    /\ UNCHANGED install_queue
    /\ current_installing_index' = -1
    /\ install_btn' = update_queue_display(install_queue)
    /\ progress_bar' = 0
    /\ batch_progress_label' = <<0, 0>>
    /\ run_attempts' = <<>>

\* reset_after_batch: buttons back to idle, queue cleared, display refreshed,
\* progress zeroed.
reset_after_batch ==
    /\ browse_btn' = TRUE
    /\ clear_queue_btn' = TRUE
    /\ cancel_btn' = FALSE
    /\ install_queue' = <<>>
    /\ current_installing_index' = -1
    /\ install_btn' = update_queue_display(install_queue')
    /\ progress_bar' = 0
    /\ batch_progress_label' = <<0, 0>>
    /\ run_attempts' = <<>>

\* install_next_in_queue, called with the index and the cancel flag its caller
\* has just set and the button states the caller leaves (cancel, browse,
\* clear).
install_next_in_queue(idx, cancelled, btns) ==
    IF cancelled THEN
        /\ log_output' = "Cancelled"
        /\ reset_after_batch
        /\ UNCHANGED <<installer_thread, threads, thread_count>>
    ELSE IF idx >= Len(install_queue) THEN
        /\ log_output' = "Completed"
        /\ reset_after_batch
        /\ UNCHANGED <<installer_thread, threads, thread_count>>
    ELSE
        /\ thread_count < MaxAttempts
        /\ UNCHANGED install_queue
        /\ current_installing_index' = idx
        /\ install_btn' = update_queue_display(install_queue)
        /\ cancel_btn' = btns[1]
        /\ browse_btn' = btns[2]
        /\ clear_queue_btn' = btns[3]
        /\ progress_bar' = 0
        /\ batch_progress_label' = <<idx, Len(install_queue)>>
        /\ log_output' = "Installing"
        /\ threads' = threads \cup
               {[id |-> thread_count + 1,
                 package_path |-> PyGet(install_queue, idx)]}
        /\ installer_thread' = thread_count + 1
        /\ thread_count' = thread_count + 1
        /\ run_attempts' = Append(run_attempts, PyGet(install_queue, idx))

\* "Start Batch Installation" clicked; reply answers the confirmation.
start_batch_installation(reply) ==
    /\ ~crashed
    /\ install_btn
    /\ install_queue # <<>>
    /\ IF reply = "No" THEN UNCHANGED vars
       ELSE /\ batch_cancelled' = FALSE
            /\ install_next_in_queue(0, FALSE, <<TRUE, FALSE, FALSE>>)
            /\ UNCHANGED <<signals, ledger, last_dialog, crashed,
                           current_package, run_state, handler_call,
                        retry_call>>

\* The GUI thread takes the oldest queued finished(success, message) signal.
batch_installation_finished ==
    /\ ~crashed
    /\ signals # <<>>
    /\ signals' = Tail(signals)
    /\ UNCHANGED <<current_package, run_state, handler_call,
                        retry_call>>
    /\ IF ~PyIndexOK(install_queue, current_installing_index) THEN
           \* IndexError in the slot: PyQt aborts the process (5.5 and
           \* later) or prints the traceback and drops the slot call.
           /\ crashed' \in BOOLEAN
           /\ last_dialog' = "none"
           /\ UNCHANGED <<install_queue, current_installing_index,
                          batch_cancelled, buttons, progress_bar,
                          batch_progress_label, installer_thread, threads,
                          thread_count, run_attempts, ledger, log_output>>
       ELSE
           LET success == Head(signals).success
               cur == PyGet(install_queue, current_installing_index)
               ask == ~success
                      /\ current_installing_index < Len(install_queue) - 1
           IN  /\ history' = log_installation(history, cur, success)
               /\ logged' = Append(logged, [id |-> Head(signals).id,
                                            package_path |->
                                                Head(signals).package_path])
               /\ last_dialog' = IF ask THEN "PackageFailed" ELSE "none"
               /\ UNCHANGED crashed
               /\ \E reply \in IF ask THEN {"Yes", "No"} ELSE {"Yes"} :
                    IF reply = "No" THEN
                        /\ batch_cancelled' = TRUE
                        /\ log_output' = "CancelledByUser"
                        /\ reset_after_batch
                        /\ UNCHANGED <<installer_thread, threads,
                                       thread_count>>
                    ELSE
                        /\ UNCHANGED batch_cancelled
                        /\ install_next_in_queue(
                               current_installing_index + 1, batch_cancelled,
                               <<cancel_btn, browse_btn, clear_queue_btn>>)

\* "Cancel" clicked; reply answers the confirmation.
cancel_batch_installation(reply) ==
    /\ ~crashed
    /\ cancel_btn
    /\ IF reply = "Yes"
       THEN /\ batch_cancelled' = TRUE
            /\ cancel_btn' = FALSE
            /\ UNCHANGED <<install_queue, current_installing_index,
                           install_btn, browse_btn, clear_queue_btn,
                           progress_bar, batch_progress_label, workers, ledger, log_output, last_dialog, crashed,
                           current_package>>
       ELSE UNCHANGED vars

\* ------------------------------------------------------- queue editing
RECURSIVE AddEach(_, _)
\* The loop of browse_package: each path is appended unless already queued.
AddEach(q, file_paths) ==
    IF file_paths = <<>> THEN q
    ELSE AddEach(IF PyIn(Head(file_paths), q) THEN q
                 ELSE Append(q, Head(file_paths)),
                 Tail(file_paths))

\* The queue browse_package leaves for the dialog's selection.
browse_queue(q, file_paths) == AddEach(q, file_paths)

\* File dialog (button, or Ctrl+O at any time) returning file_paths.
browse_package(file_paths) ==
    /\ ~crashed
    /\ IF file_paths # <<>>
       THEN /\ install_queue' = browse_queue(install_queue, file_paths)
            /\ Len(install_queue') <= MaxQueue
            /\ install_btn' = update_queue_display(install_queue')
            /\ UNCHANGED <<current_installing_index, batch_cancelled,
                           cancel_btn, browse_btn, clear_queue_btn,
                           progress_bar, batch_progress_label, workers, ledger, log_output, last_dialog, crashed,
                           current_package>>
       ELSE UNCHANGED vars

\* valid_files of dropEvent: the dropped regular files with a supported
\* extension that are not in the queue.
valid_files(q, urls) ==
    SelectSeq(urls, LAMBDA p : isfile(p) /\ is_supported_package(p)
                               /\ ~PyIn(p, q))

\* The queue dropEvent leaves for the dropped urls.
drop_queue(q, urls) == q \o valid_files(q, urls)

dropEvent(urls) ==
    /\ ~crashed
    /\ IF urls # <<>> /\ valid_files(install_queue, urls) # <<>>
       THEN /\ install_queue' = drop_queue(install_queue, urls)
            /\ Len(install_queue') <= MaxQueue
            /\ install_btn' = update_queue_display(install_queue')
            /\ UNCHANGED <<current_installing_index, batch_cancelled,
                           cancel_btn, browse_btn, clear_queue_btn,
                           progress_bar, batch_progress_label, workers, ledger, log_output, last_dialog, crashed,
                           current_package>>
       ELSE UNCHANGED vars

\* Context menu "Remove from Queue" on row index.
remove_from_queue(index) ==
    /\ ~crashed
    /\ IF 0 <= index /\ index < Len(install_queue)
       THEN /\ install_queue' = PyPop(install_queue, index)
            /\ install_btn' = update_queue_display(install_queue')
            /\ UNCHANGED <<current_installing_index, batch_cancelled,
                           cancel_btn, browse_btn, clear_queue_btn,
                           progress_bar, batch_progress_label, workers, ledger, log_output, last_dialog, crashed,
                           current_package>>
       ELSE UNCHANGED vars

\* "Clear Queue" clicked; reply answers the confirmation.
clear_queue(reply) ==
    /\ ~crashed
    /\ clear_queue_btn
    /\ IF install_queue # <<>> /\ reply = "Yes"
       THEN /\ install_queue' = <<>>
            /\ current_installing_index' = -1
            /\ install_btn' = update_queue_display(install_queue')
            /\ UNCHANGED <<batch_cancelled, cancel_btn, browse_btn,
                           clear_queue_btn, progress_bar,
                           batch_progress_label, workers, ledger,
                           log_output, last_dialog, crashed, current_package>>
       ELSE UNCHANGED vars

\* Ctrl+I: no statement of the program gives current_package a value other
\* than None, so the slot warns "No Package" and returns.
install_package ==
    /\ ~crashed
    /\ current_package = "None"
    /\ UNCHANGED vars

\* ------------------------------------------------- InstallerThread.run
\* Thread t runs from entry to its finished emission.  The thread was
\* constructed with the state of the two verification checkboxes, which the
\* user may have set either way on the settings tab, and without the manual
\* checksum; nothing but run() reads these fields, so they are drawn here.
\* A thread that self.installer_thread no longer names loses its last
\* reference when run() returns: the QThread is destroyed while running,
\* which aborts the process or not, depending on when the wrapper is
\* collected.
RunThread(t, verify_integrity, verify_signature, verify_ok, install_ok) ==
    /\ ~crashed
    /\ t \in threads
    /\ LET r == run(NewThread(t.id, t.package_path, verify_integrity,
                              verify_signature, "None"),
                    verify_ok, install_ok)
       IN  /\ threads' = threads \ {t}
           /\ signals' = Append(signals, [id |-> t.id,
                                           package_path |-> t.package_path,
                                           success |-> r.success])
           /\ progress_bar' = progress_of(r)
    /\ crashed' \in IF t.id # installer_thread THEN BOOLEAN ELSE {FALSE}
    /\ UNCHANGED <<install_queue, current_installing_index, batch_cancelled,
                   buttons, batch_progress_label, installer_thread,
                   thread_count, run_attempts, ledger, log_output,
                   last_dialog, current_package, run_state, handler_call,
                        retry_call>>

\* ----------------------------------------------------------------- system
Next ==
    \/ \E reply \in {"Yes", "No"} : start_batch_installation(reply)
    \/ batch_installation_finished
    \/ \E reply \in {"Yes", "No"} : cancel_batch_installation(reply)
    \/ \E file_paths \in SeqsUpTo(DialogFiles, MaxUrls) :
           browse_package(file_paths)
    \/ \E urls \in SeqsUpTo(AllPaths, MaxUrls) : dropEvent(urls)
    \/ \E index \in 0..(MaxQueue - 1) : remove_from_queue(index)
    \/ \E reply \in {"Yes", "No"} : clear_queue(reply)
    \/ install_package
    \/ \E t \in threads, verify_integrity \in BOOLEAN,
          verify_signature \in BOOLEAN, verify_ok \in BOOLEAN,
          install_ok \in BOOLEAN :
           RunThread(t, verify_integrity, verify_signature, verify_ok,
                     install_ok)

Spec == Init /\ [][Next]_vars

\* ------------------------------------------- InstallerThread.run, stepwise
\* One InstallerThread taken alone through run(), one blocking call per step,
\* for every package path and every verification setting.
Checksums == {"None", "", "9f86d081"}

InitRun ==
    /\ InitWindow
    /\ run_state \in {NewThread(1, p, vi, vs, c) :
                        p \in AllPaths, vi \in BOOLEAN, vs \in BOOLEAN,
                        c \in Checksums}
    /\ handler_call = "idle"
    /\ retry_call = "idle"

StepOnly ==
    UNCHANGED <<install_queue, current_installing_index, batch_cancelled,
                buttons, progress_bar, batch_progress_label, installer_thread,
                threads, signals, thread_count, run_attempts, ledger,
                log_output, last_dialog, crashed, current_package,
                handler_call,
                        retry_call>>

StepValidate ==
    /\ run_state.pc = "validate"
    /\ run_state' = run_validate(run_state)
    /\ StepOnly

StepVerify(ok) ==
    /\ run_state.pc = "verify"
    /\ run_state' = run_verify(run_state, ok)
    /\ StepOnly

StepInstall(ok) ==
    /\ run_state.pc = "install"
    /\ run_state' = run_install(run_state, ok)
    /\ StepOnly

StepRaise(called) ==
    /\ run_state.pc \in {"validate", "verify", "install"}
    /\ called => run_state.pc = "install"
    /\ run_state' = run_except(run_state, called)
    /\ StepOnly

NextRun ==
    \/ StepValidate
    \/ \E ok \in BOOLEAN : StepVerify(ok)
    \/ \E ok \in BOOLEAN : StepInstall(ok)
    \/ \E called \in BOOLEAN : StepRaise(called)

SpecRun == InitRun /\ [][NextRun]_vars

\* ------------------------------------------- PackageHandler.verify_package
\* Paths of the two formats without an inspection tool.
PathSnap == [stem |-> "/home/u/s", ext |-> ".snap"]
PathFlatpak == [stem |-> "/home/u/f", ext |-> ".flatpak"]

\* The paths a PackageHandler call is given and the ones that exist.
HandlerPaths == AllPaths \cup {PathSnap, PathFlatpak}
HandlerFiles == ExistingFiles \cup {PathSnap, PathFlatpak}

exists(p) == p \in HandlerFiles

\* get_package_type: the lower-cased extension.
get_package_type(p) == Lower(p.ext)

\* if file_size < 1024
MinPackageSize == 1024

\* The digests of the file under the two algorithms hashlib is asked for.
Sha256OfFile == "ab12"
Md5OfFile == "cd34"

\* str.upper() on the checksum types below.
Upper(s) ==
    CASE s = "sha256" -> "SHA256"
      [] s = "MD5" -> "MD5"
      [] s = "md5" -> "MD5"
      [] s = "sha1" -> "SHA1"
      [] s = "sha512" -> "SHA512"
      [] OTHER -> s

\* Outcomes of subprocess.run on an external tool: exit status 0 (with or
\* without "OK" on stdout), another exit status, FileNotFoundError,
\* TimeoutExpired.
ToolOutcomes == {"exit0", "exit0_no_OK", "exit1", "absent", "timeout"}

returncode(o) == IF o \in {"exit0", "exit0_no_OK"} THEN 0 ELSE 1

\* _calculate_checksum: the hex digest, or ValueError for any other type.
calculate_checksum(checksum_type) ==
    IF Lower(checksum_type) = "sha256" THEN Sha256OfFile
    ELSE IF Lower(checksum_type) = "md5" THEN Md5OfFile
    ELSE "ValueError"

\* The tool part of _verify_gpg_signature as it would be if the exit status
\* alone decided, for rpm as for gpg.
run_signature_tool_status_only(h, looked, tools, need_ok) ==
    CASE h.sig_tool = "absent" ->
             [valid |-> FALSE, msg |-> "tools_not_installed",
              looked |-> looked, tools |-> tools]
      [] h.sig_tool = "timeout" ->
             [valid |-> FALSE, msg |-> "timed_out",
              looked |-> looked, tools |-> tools]
      [] OTHER ->
             [valid |-> returncode(h.sig_tool) = 0,
              msg |-> IF returncode(h.sig_tool) = 0 THEN "valid"
                      ELSE "tool_output",
              looked |-> looked, tools |-> tools]

\* The part of _verify_gpg_signature that runs the tool: subprocess.run with
\* a timeout, FileNotFoundError and TimeoutExpired caught, then the test of
\* the exit status (and of "OK" on stdout where need_ok).
run_signature_tool(h, looked, tools, need_ok) ==
    CASE h.sig_tool = "absent" ->
             [valid |-> FALSE, msg |-> "tools_not_installed",
              looked |-> looked, tools |-> tools]
      [] h.sig_tool = "timeout" ->
             [valid |-> FALSE, msg |-> "timed_out",
              looked |-> looked, tools |-> tools]
      [] OTHER ->
             IF returncode(h.sig_tool) = 0
                /\ (need_ok => h.sig_tool = "exit0")
             THEN [valid |-> TRUE, msg |-> "valid",
                   looked |-> looked, tools |-> tools]
             ELSE [valid |-> FALSE, msg |-> "tool_output",
                   looked |-> looked, tools |-> tools]

\* _verify_gpg_signature as it would be if a package without a signature
\* file were let through.
verify_gpg_signature_skipping(h) ==
    LET package_type == get_package_type(h.package_path)
    IN  IF package_type = ".deb" THEN
            IF ~h.asc /\ ~h.sig
            THEN [valid |-> TRUE, msg |-> "no_signature_file",
                  looked |-> <<".asc", ".sig">>, tools |-> <<>>]
            ELSE LET looked == IF h.asc THEN <<".asc">> ELSE <<".asc", ".sig">>
                 IN  run_signature_tool(h, looked,
                         <<[tool |-> "gpg", sig_path |-> looked[Len(looked)]]>>,
                         FALSE)
        ELSE IF package_type = ".rpm" THEN
            run_signature_tool(h, <<>>,
                <<[tool |-> "rpm_checksig", sig_path |-> "-"]>>, TRUE)
        ELSE [valid |-> FALSE, msg |-> "unsupported_type",
              looked |-> <<>>, tools |-> <<>>]

\* _verify_gpg_signature on host h: (valid, message), the sibling files it
\* looked for, in order, and the tool it ran with the signature file given.
verify_gpg_signature(h) ==
    LET package_type == get_package_type(h.package_path)
    IN  IF package_type = ".deb" THEN
            IF ~h.asc /\ ~h.sig
            THEN [valid |-> FALSE, msg |-> "no_signature_file",
                  looked |-> <<".asc", ".sig">>, tools |-> <<>>]
            ELSE LET looked == IF h.asc THEN <<".asc">> ELSE <<".asc", ".sig">>
                 IN  run_signature_tool(h, looked,
                         <<[tool |-> "gpg", sig_path |-> looked[Len(looked)]]>>,
                         FALSE)
        ELSE IF package_type = ".rpm" THEN
            run_signature_tool(h, <<>>,
                <<[tool |-> "rpm_checksig", sig_path |-> "-"]>>, TRUE)
        ELSE [valid |-> FALSE, msg |-> "unsupported_type",
              looked |-> <<>>, tools |-> <<>>]

\* _check_package_integrity as it would be if a missing inspection tool
\* counted as a defect of the package.
check_package_integrity_strict(h) ==
    LET package_type == get_package_type(h.package_path)
        tool == IF package_type = ".deb" THEN "dpkg-deb" ELSE "rpm_qp"
    IN  IF package_type \in {".deb", ".rpm"} THEN
            IF h.integrity_tool \in {"absent", "timeout"}
            THEN [ok |-> FALSE, msg |-> "timed_out",
                  tools |-> <<[tool |-> tool, sig_path |-> "-"]>>]
            ELSE [ok |-> returncode(h.integrity_tool) = 0, msg |-> "ran",
                  tools |-> <<[tool |-> tool, sig_path |-> "-"]>>]
        ELSE [ok |-> TRUE, msg |-> "basic_checks_passed", tools |-> <<>>]

\* _check_package_integrity on host h: (ok, message) and the tools it ran.
check_package_integrity(h) ==
    LET package_type == get_package_type(h.package_path)
        tool == IF package_type = ".deb" THEN "dpkg-deb" ELSE "rpm_qp"
        tools == <<[tool |-> tool, sig_path |-> "-"]>>
    IN  IF package_type \in {".deb", ".rpm"} THEN
            CASE h.integrity_tool = "absent" ->
                     [ok |-> TRUE, msg |-> "skipped_tools_not_available",
                      tools |-> tools]
              [] h.integrity_tool = "timeout" ->
                     [ok |-> FALSE, msg |-> "timed_out", tools |-> tools]
              [] OTHER ->
                     IF returncode(h.integrity_tool) = 0
                     THEN [ok |-> TRUE, msg |-> "structure_valid",
                           tools |-> tools]
                     ELSE [ok |-> FALSE, msg |-> "corrupted_or_invalid",
                           tools |-> tools]
        ELSE [ok |-> TRUE, msg |-> "basic_checks_passed", tools |-> <<>>]

\* str(bool), so that the three values None, True and False of a result field
\* are of one kind.
PyBool(b) == IF b THEN "True" ELSE "False"

\* verification_results as verify_package creates it, with the checks run,
\* the sibling files looked for and the external tools run so far.
NewVerification ==
    [file_exists |-> FALSE, file_size |-> 0, checksum_match |-> "None",
     signature_valid |-> "None", integrity_ok |-> FALSE,
     checks |-> <<>>, looked |-> <<>>, tools |-> <<>>, hashed |-> FALSE]

\* What verify_package returns: (success, message, verification_results).
Returned(success, message, r) ==
    [success |-> success, message |-> message, details |-> r]

\* verify_integrity as it would be if the result of the structural check
\* were recorded but not tested.
verify_integrity_unchecked(h, r) ==
    LET i == check_package_integrity(h)
        r5 == [r EXCEPT !.integrity_ok = i.ok,
                        !.checks = Append(@, "integrity"),
                        !.tools = @ \o i.tools]
    IN  Returned(TRUE, [tag |-> "success",
                        checksum_line |-> Truthy(h.checksum),
                        signature_line |-> h.check_signature], r5)

\* Check 5 and the success return.
verify_integrity(h, r) ==
    LET i == check_package_integrity(h)
        r5 == [r EXCEPT !.integrity_ok = i.ok,
                        !.checks = Append(@, "integrity"),
                        !.tools = @ \o i.tools]
    IN  IF ~i.ok
        THEN Returned(FALSE, [tag |-> "integrity_failed", msg |-> i.msg], r5)
        ELSE Returned(TRUE, [tag |-> "success",
                             checksum_line |-> Truthy(h.checksum),
                             signature_line |-> h.check_signature], r5)

\* verify_signature as it would be if an invalid signature did not end the
\* verification.
verify_signature_no_stop(h, r) ==
    IF h.check_signature
    THEN LET g == verify_gpg_signature(h)
         IN  verify_integrity(h, [r EXCEPT !.signature_valid = PyBool(g.valid),
                                           !.checks = Append(@, "signature"),
                                           !.looked = g.looked,
                                           !.tools = @ \o g.tools])
    ELSE verify_integrity(h, r)

\* Check 4: the signature, if requested.
verify_signature(h, r) ==
    IF h.check_signature
    THEN LET g == verify_gpg_signature(h)
             r4 == [r EXCEPT !.signature_valid = PyBool(g.valid),
                             !.checks = Append(@, "signature"),
                             !.looked = g.looked,
                             !.tools = @ \o g.tools]
         IN  IF ~g.valid
             THEN Returned(FALSE, [tag |-> "signature_failed",
                                   msg |-> g.msg], r4)
             ELSE verify_integrity(h, r4)
    ELSE verify_integrity(h, r)

\* verify_checksum as it would be if a mismatch were recorded but did not end
\* the verification.
verify_checksum_no_stop(h, r) ==
    IF Truthy(h.checksum)
    THEN LET calculated_checksum == calculate_checksum(h.checksum_type)
             r3 == [r EXCEPT !.checks = Append(@, "checksum")]
         IN  IF calculated_checksum = "ValueError"
             THEN Returned(FALSE, [tag |-> "verification_error"], r3)
             ELSE verify_signature(h,
                      [r3 EXCEPT !.hashed = TRUE,
                                 !.checksum_match =
                                     PyBool(Lower(calculated_checksum)
                                            = Lower(h.checksum))])
    ELSE verify_signature(h, r)

\* Check 3: the checksum, if one is given.  An unsupported checksum type
\* raises ValueError, which the except branch of verify_package turns into
\* a failure.
verify_checksum(h, r) ==
    IF Truthy(h.checksum)
    THEN LET calculated_checksum == calculate_checksum(h.checksum_type)
             r3 == [r EXCEPT !.checks = Append(@, "checksum")]
         IN  IF calculated_checksum = "ValueError"
             THEN Returned(FALSE, [tag |-> "verification_error"], r3)
             ELSE IF Lower(calculated_checksum) = Lower(h.checksum)
             THEN verify_signature(h, [r3 EXCEPT !.hashed = TRUE,
                                                 !.checksum_match = "True"])
             ELSE Returned(FALSE,
                           [tag |-> "checksum_mismatch",
                            algorithm |-> Upper(h.checksum_type),
                            expected |-> h.checksum,
                            got |-> calculated_checksum],
                           [r3 EXCEPT !.hashed = TRUE,
                                      !.checksum_match = "False"])
    ELSE verify_signature(h, r)

\* verify_size as it would be if only an empty file were rejected.
verify_size_empty_only(h, r) ==
    LET r2 == [r EXCEPT !.file_size = h.file_size,
                        !.checks = Append(@, "size")]
    IN  IF h.file_size < 1
        THEN Returned(FALSE, [tag |-> "too_small", size |-> h.file_size], r2)
        ELSE verify_checksum(h, r2)

\* Check 2: the minimum size.
verify_size(h, r) ==
    LET r2 == [r EXCEPT !.file_size = h.file_size,
                        !.checks = Append(@, "size")]
    IN  IF h.file_size < MinPackageSize
        THEN Returned(FALSE, [tag |-> "too_small", size |-> h.file_size], r2)
        ELSE verify_checksum(h, r2)

\* verify_package(package_path, checksum, checksum_type, check_signature) on
\* host h, from check 1 (existence) on.
verify_package(h) ==
    LET r0 == [NewVerification EXCEPT !.checks = <<"exists">>]
    IN  IF ~exists(h.package_path)
        THEN Returned(FALSE, [tag |-> "not_found"], r0)
        ELSE verify_size(h, [r0 EXCEPT !.file_exists = TRUE])

\* The arguments of a verify_package call and the host it runs on: the size
\* of the file, its sibling signature files, and what the signature tool and
\* the inspection tool do when run.
ChecksumArgs == {"None", "", "ab12", "AB12", "cd34", "ffff"}
ChecksumTypes == {"sha256", "md5", "MD5", "sha1", "sha512"}
FileSizes == {0, MinPackageSize - 1, MinPackageSize, MinPackageSize + 1}
IntegrityOutcomes == {"exit0", "exit1", "absent", "timeout"}

VerifyCalls ==
    [op : {"verify_package"}, pc : {"call"}, package_path : HandlerPaths,
     file_size : FileSizes, checksum : ChecksumArgs,
     checksum_type : ChecksumTypes, check_signature : BOOLEAN,
     asc : BOOLEAN, sig : BOOLEAN, sig_tool : ToolOutcomes,
     integrity_tool : IntegrityOutcomes,
     result : {Returned(FALSE, [tag |-> "none"], NewVerification)}]

InitVerify ==
    /\ InitWindow
    /\ run_state = "idle"
    /\ handler_call \in VerifyCalls
    /\ retry_call = "idle"

VerifyCall ==
    /\ handler_call.pc = "call"
    /\ handler_call' = [handler_call EXCEPT
                            !.pc = "returned",
                            !.result = verify_package(handler_call)]
    /\ UNCHANGED <<install_queue, current_installing_index, batch_cancelled,
                   buttons, progress_bar, batch_progress_label,
                   installer_thread, threads, signals, thread_count,
                   run_attempts, ledger, log_output, last_dialog, crashed,
                   current_package, run_state,
                        retry_call>>

NextVerify == VerifyCall

SpecVerify == InitVerify /\ [][NextVerify]_vars

\* ------------------------------------------ PackageHandler.install_package
\* The commands _command_exists is asked about ("which <command>").
Commands == {"apt", "dpkg", "dnf", "yum", "zypper", "rpm", "snap", "flatpak"}

\* Outcomes of subprocess.run on an install command: exit status 0, another
\* exit status with or without text on stderr, TimeoutExpired, and
\* FileNotFoundError (the program to run is not on the host).
InstallOutcomes == {"exit0", "exit1", "exit1_no_stderr", "timeout", "absent"}

\* Outcomes of "systemctl is-active snapd": status 0, another status,
\* FileNotFoundError, and never returning (the call is given no timeout).
ServiceOutcomes == {"exit0", "exit1", "absent", "hang"}

\* _command_exists: "which command" succeeded.
command_exists(h, command) == command \in h.commands

\* What an install routine returns, with the subprocesses it started.
Outcome(success, message, calls) ==
    [success |-> success, message |-> message, calls |-> calls]

\* The tail shared by the install routines: the test of result.returncode
\* and the two except clauses, for a subprocess that ended with outcome o.
install_result(o, calls) ==
    CASE o = "exit0" ->
             Outcome(TRUE, [tag |-> "installed", text |-> "stdout"], calls)
      [] o = "exit1" ->
             Outcome(FALSE, [tag |-> "install_failed", text |-> "stderr"],
                     calls)
      [] o = "exit1_no_stderr" ->
             Outcome(FALSE, [tag |-> "install_failed", text |-> "stdout"],
                     calls)
      [] o = "timeout" ->
             Outcome(FALSE, [tag |-> "timed_out", text |-> "-"], calls)
      [] OTHER ->
             Outcome(FALSE, [tag |-> "install_error", text |-> "-"], calls)

\* _install_deb as it would be if the fallback to dpkg were taken without
\* asking whether dpkg is present.
install_deb_unprobed_fallback(h) ==
    IF command_exists(h, "apt") THEN
        install_result(h.first, <<"which apt", "pkexec apt install">>)
    ELSE install_result(h.first, <<"which apt", "pkexec dpkg -i">>)

\* _install_deb on host h.
install_deb(h) ==
    IF command_exists(h, "apt") THEN
        install_result(h.first, <<"which apt", "pkexec apt install">>)
    ELSE IF command_exists(h, "dpkg") THEN
        LET calls == <<"which apt", "which dpkg", "pkexec dpkg -i">>
            fixed == Append(calls, "pkexec apt-get install -f")
        IN  IF h.first \in {"exit1", "exit1_no_stderr"}
            THEN IF h.second \in {"timeout", "absent"}
                 THEN install_result(h.second, fixed)
                 ELSE install_result(h.first, fixed)
            ELSE install_result(h.first, calls)
    ELSE Outcome(FALSE, [tag |-> "no_manager_deb", text |-> "-"],
                 <<"which apt", "which dpkg">>)

\* The "which" calls _install_rpm makes until it finds manager i of
\* dnf, yum, zypper, rpm.
rpm_managers == <<"dnf", "yum", "zypper", "rpm">>

rpm_probes(i) == [k \in 1..i |-> IF k = 1 THEN "which dnf"
                                 ELSE IF k = 2 THEN "which yum"
                                 ELSE IF k = 3 THEN "which zypper"
                                 ELSE "which rpm"]

\* _install_rpm as it would be if the low-level rpm command were preferred
\* whenever it is present.
install_rpm_preferring_rpm(h) ==
    IF command_exists(h, "rpm")
    THEN install_result(h.first, <<"which rpm", "pkexec rpm -ivh">>)
    ELSE IF command_exists(h, "dnf")
    THEN install_result(h.first, <<"which rpm", "which dnf",
                                   "pkexec dnf install">>)
    ELSE Outcome(FALSE, [tag |-> "no_manager_rpm", text |-> "-"],
                 <<"which rpm", "which dnf">>)

\* _install_rpm on host h.
install_rpm(h) ==
    IF \E i \in 1..Len(rpm_managers) : command_exists(h, rpm_managers[i])
    THEN LET i == CHOOSE i \in 1..Len(rpm_managers) :
                      /\ command_exists(h, rpm_managers[i])
                      /\ \A j \in 1..(i - 1) :
                             ~command_exists(h, rpm_managers[j])
         IN  install_result(h.first,
                 Append(rpm_probes(i),
                        IF i = 1 THEN "pkexec dnf install"
                        ELSE IF i = 2 THEN "pkexec yum install"
                        ELSE IF i = 3 THEN "pkexec zypper install"
                        ELSE "pkexec rpm -ivh"))
    ELSE Outcome(FALSE, [tag |-> "no_manager_rpm", text |-> "-"],
                 rpm_probes(Len(rpm_managers)))

\* _install_snap as it would be if the install were started whatever the
\* service-status query returns.
install_snap_ignoring_service(h) ==
    IF ~command_exists(h, "snap")
    THEN Outcome(FALSE, [tag |-> "snap_not_installed", text |-> "-"],
                 <<"which snap">>)
    ELSE LET queried == <<"which snap", "systemctl is-active snapd">>
         IN  CASE h.service = "hang" ->
                      Outcome(FALSE, [tag |-> "blocked", text |-> "-"],
                              queried)
               [] h.service = "absent" ->
                      Outcome(FALSE, [tag |-> "install_error", text |-> "-"],
                              queried)
               [] OTHER ->
                      install_result(h.first,
                          Append(queried, "pkexec snap install --dangerous"))

\* _install_snap on host h.  A service-status query that never returns
\* leaves the call blocked.
install_snap(h) ==
    IF ~command_exists(h, "snap")
    THEN Outcome(FALSE, [tag |-> "snap_not_installed", text |-> "-"],
                 <<"which snap">>)
    ELSE LET queried == <<"which snap", "systemctl is-active snapd">>
         IN  CASE h.service = "hang" ->
                      Outcome(FALSE, [tag |-> "blocked", text |-> "-"],
                              queried)
               [] h.service = "absent" ->
                      Outcome(FALSE, [tag |-> "install_error", text |-> "-"],
                              queried)
               [] h.service = "exit1" ->
                      Outcome(FALSE, [tag |-> "snapd_not_running",
                                      text |-> "-"], queried)
               [] OTHER ->
                      install_result(h.first,
                          Append(queried, "pkexec snap install --dangerous"))

\* _install_flatpak as it would be if the system-scope install were always
\* run after the user-scope one.
install_flatpak_always_system(h) ==
    IF ~command_exists(h, "flatpak")
    THEN Outcome(FALSE, [tag |-> "flatpak_not_installed", text |-> "-"],
                 <<"which flatpak">>)
    ELSE LET user == <<"which flatpak", "flatpak install --bundle">>
         IN  IF h.first \in {"timeout", "absent"}
             THEN install_result(h.first, user)
             ELSE install_result(h.second,
                      Append(user, "pkexec flatpak install --system --bundle"))

\* _install_flatpak on host h.
install_flatpak(h) ==
    IF ~command_exists(h, "flatpak")
    THEN Outcome(FALSE, [tag |-> "flatpak_not_installed", text |-> "-"],
                 <<"which flatpak">>)
    ELSE LET user == <<"which flatpak", "flatpak install --bundle">>
         IN  IF h.first \in {"exit1", "exit1_no_stderr"}
             THEN install_result(h.second,
                      Append(user, "pkexec flatpak install --system --bundle"))
             ELSE install_result(h.first, user)

\* install_package as it would be if any other extension were handed to the
\* Debian routine.
install_package_defaulting(h) ==
    LET package_type == get_package_type(h.package_path)
    IN  CASE package_type = ".rpm" -> install_rpm(h)
          [] package_type = ".snap" -> install_snap(h)
          [] package_type = ".flatpak" -> install_flatpak(h)
          [] OTHER -> install_deb(h)

\* PackageHandler.install_package(package_path) on host h.
handler_install_package(h) ==
    LET package_type == get_package_type(h.package_path)
    IN  CASE package_type = ".deb" -> install_deb(h)
          [] package_type = ".rpm" -> install_rpm(h)
          [] package_type = ".snap" -> install_snap(h)
          [] package_type = ".flatpak" -> install_flatpak(h)
          [] OTHER -> Outcome(FALSE, [tag |-> "unsupported_format",
                                      text |-> "-"], <<>>)

\* EnhancedPackageHandler._install_snap_enhanced on host h: the query has a
\* timeout; a non-zero status or a timeout raises ServiceNotRunningError, a
\* missing systemctl is passed over; the install raises on failure.
install_snap_enhanced(h) ==
    LET queried == <<"systemctl is-active snapd">>
        installed == Append(queried, "pkexec snap install --dangerous")
    IN  IF h.service \in {"exit1", "hang"}
        THEN Outcome(FALSE, [tag |-> "ServiceNotRunningError", text |-> "-"],
                     queried)
        ELSE CASE h.first = "exit0" ->
                      Outcome(TRUE, [tag |-> "installed", text |-> "-"],
                              installed)
               [] h.first = "timeout" ->
                      Outcome(FALSE, [tag |-> "InstallationTimeoutError",
                                      text |-> "-"], installed)
               [] h.first = "absent" ->
                      Outcome(FALSE, [tag |-> "FileNotFoundError",
                                      text |-> "-"], installed)
               [] OTHER ->
                      Outcome(FALSE, [tag |-> "InvalidPackageError",
                                      text |-> IF h.first = "exit1"
                                               THEN "stderr" ELSE "stdout"],
                              installed)

\* The install calls explored: every path, every set of commands present
\* and every outcome of the subprocesses the routines start (first: the
\* first install command; second: the command run after a failed first one;
\* service: the service-status query).
InstallCalls ==
    [op : {"install_package"}, pc : {"call"}, package_path : HandlerPaths,
     commands : SUBSET Commands, first : InstallOutcomes,
     second : InstallOutcomes, service : ServiceOutcomes,
     result : {Outcome(FALSE, [tag |-> "none", text |-> "-"], <<>>)}]
    \cup
    [op : {"install_snap_enhanced"}, pc : {"call"}, package_path : {PathSnap},
     commands : {Commands}, first : InstallOutcomes,
     second : {"exit0"}, service : ServiceOutcomes,
     result : {Outcome(FALSE, [tag |-> "none", text |-> "-"], <<>>)}]

InitInstall ==
    /\ InitWindow
    /\ run_state = "idle"
    /\ handler_call \in InstallCalls
    /\ retry_call = "idle"

CallOnly ==
    UNCHANGED <<install_queue, current_installing_index, batch_cancelled,
                buttons, progress_bar, batch_progress_label, installer_thread,
                threads, signals, thread_count, run_attempts, ledger,
                log_output, last_dialog, crashed, current_package, run_state,
                        retry_call>>

InstallCall ==
    /\ handler_call.op = "install_package"
    /\ handler_call.pc = "call"
    /\ LET r == handler_install_package(handler_call)
       IN  handler_call' = [handler_call EXCEPT
                                !.pc = IF r.message.tag = "blocked"
                                       THEN "blocked" ELSE "returned",
                                !.result = r]
    /\ CallOnly

EnhancedSnapCall ==
    /\ handler_call.op = "install_snap_enhanced"
    /\ handler_call.pc = "call"
    /\ handler_call' = [handler_call EXCEPT
                            !.pc = "returned",
                            !.result = install_snap_enhanced(handler_call)]
    /\ CallOnly

NextInstall ==
    \/ InstallCall
    \/ EnhancedSnapCall

SpecInstall == InitInstall /\ [][NextInstall]_vars

\* ------------------------------------------- PackageHandler and its host
\* Most changes of the host's tool set followed after construction.
MaxHostChanges == 1

\* The commands a host can hold: those the install routines ask for and
\* apt-get, which only the construction-time probes ask for.
HostCommands == Commands \cup {"apt-get"}

\* config.SUPPORTED_FORMATS: the formats in order, and each one's 'managers'.
Formats == <<"deb", "rpm", "snap", "flatpak">>

managers_of(fmt_name) ==
    CASE fmt_name = "deb" -> <<"apt", "apt-get", "dpkg">>
      [] fmt_name = "rpm" -> <<"dnf", "yum", "zypper", "rpm">>
      [] fmt_name = "snap" -> <<"snap">>
      [] OTHER -> <<"flatpak">>

\* detect_package_manager on host h.
detect_package_manager(h) ==
    IF command_exists(h, "apt") THEN "apt"
    ELSE IF command_exists(h, "apt-get") THEN "apt"
    ELSE IF command_exists(h, "dnf") THEN "dnf"
    ELSE IF command_exists(h, "yum") THEN "yum"
    ELSE IF command_exists(h, "zypper") THEN "zypper"
    ELSE "unknown"

\* _detect_all_managers on host h: for each format that has one, the
\* managers present, in the order of the configuration.
detect_all_managers(h) ==
    LET found(fmt_name) ==
            SelectSeq(managers_of(fmt_name),
                      LAMBDA manager : command_exists(h, manager))
    IN  [fmt_name \in {Formats[i] : i \in 1..Len(Formats)}
             \ {Formats[i] : i \in {j \in 1..Len(Formats) :
                                         found(Formats[j]) = <<>>}}
         |-> found(fmt_name)]

\* A process before PackageHandler() is constructed, on a host holding the
\* given commands.
NewHost(commands) ==
    [op |-> "PackageHandler", pc |-> "new", commands |-> commands,
     startup |-> {}, changes |-> 0,
     package_manager |-> "None", available_managers |-> <<>>,
     package_path |-> PathA, first |-> "exit0", second |-> "exit0",
     service |-> "exit0",
     result |-> Outcome(FALSE, [tag |-> "none", text |-> "-"], <<>>)]

InitProbe ==
    /\ InitWindow
    /\ run_state = "idle"
    /\ handler_call \in {NewHost(c) : c \in SUBSET HostCommands}
    /\ retry_call = "idle"

\* PackageHandler.__init__: the probes of the host; startup remembers the
\* tool set they saw.
Construct ==
    /\ handler_call.op = "PackageHandler"
    /\ handler_call.pc = "new"
    /\ handler_call' =
           [handler_call EXCEPT
                !.pc = "ready",
                !.startup = handler_call.commands,
                !.package_manager = detect_package_manager(handler_call),
                !.available_managers = detect_all_managers(handler_call)]
    /\ CallOnly

\* The host gains or loses one command (a package is installed or removed
\* by someone else) while the process runs.
HostChange ==
    /\ handler_call.op = "PackageHandler"
    /\ handler_call.pc # "new"
    /\ handler_call.changes < MaxHostChanges
    /\ \E c \in HostCommands :
           handler_call' =
               [handler_call EXCEPT
                    !.commands = IF c \in @ THEN @ \ {c} ELSE @ \cup {c},
                    !.changes = @ + 1]
    /\ CallOnly

\* install_package on the constructed handler, the install subprocess
\* ending with exit status 0 or not.
ProbeInstall ==
    /\ handler_call.op = "PackageHandler"
    /\ handler_call.pc # "new"
    /\ \E p \in HandlerPaths, first \in {"exit0", "exit1"} :
           LET h == [handler_call EXCEPT !.package_path = p, !.first = first]
           IN  handler_call' =
                   [h EXCEPT !.pc = "returned",
                             !.result = handler_install_package(h)]
    /\ CallOnly

NextProbe ==
    \/ Construct
    \/ HostChange
    \/ ProbeInstall

SpecProbe == InitProbe /\ [][NextProbe]_vars

\* ------------------------------------------------------- InstallLogger
\* Most entries the history file comes to hold.
MaxHistory == 2

\* Outcomes of opening the history file: for reading in get_history, for
\* writing in log_installation and _init_log_file.
ReadOutcomes == {"ok", "error"}
WriteOutcomes == {"ok", "open_error"}

\* InstallLogger.get_history on a file holding the list stored: the list,
\* or [] when reading raised.
get_history(stored, read) == IF read = "ok" THEN stored ELSE <<>>

\* The entry log_installation builds (timestamp and message left out).
entry_of(package_path, success) ==
    [package |-> package_path,
     package_name |-> basename(package_path),
     success |-> success]

\* InstallLogger.log_installation on a file holding the list stored: what
\* the file holds afterwards and the flag returned.
logger_log_installation(stored, package_path, success, read, write) ==
    LET history_read == get_history(stored, read)
        appended == Append(history_read, entry_of(package_path, success))
    IN  IF write = "ok"
        THEN [stored |-> appended, returned |-> TRUE]
        ELSE [stored |-> stored, returned |-> FALSE]

\* InstallLogger.clear_history: _init_log_file writes [].
logger_clear_history(stored, write) ==
    IF write = "ok"
    THEN [stored |-> <<>>, returned |-> TRUE]
    ELSE [stored |-> stored, returned |-> FALSE]

\* The logger's last call: its arguments, the outcomes of its file accesses
\* and what the file held before it.
LoggerCall(op, package_path, success, read, write, before, returned) ==
    [op |-> op, package_path |-> package_path, success |-> success,
     read |-> read, write |-> write, before |-> before,
     returned |-> returned]

\* After InstallLogger(): the history file exists and holds [].
InitLedger ==
    /\ InitWindow
    /\ run_state = "idle"
    /\ handler_call
           = LoggerCall("InstallLogger", PathA, FALSE, "ok", "ok", <<>>, TRUE)
    /\ retry_call = "idle"

LedgerOnly ==
    UNCHANGED <<install_queue, current_installing_index, batch_cancelled,
                buttons, progress_bar, batch_progress_label, installer_thread,
                threads, signals, thread_count, run_attempts, logged,
                log_output, last_dialog, crashed, current_package, run_state,
                retry_call>>

LogInstallation ==
    /\ handler_call.op \in {"InstallLogger", "log_installation",
                            "clear_history"}
    /\ Len(history) < MaxHistory
    /\ \E p \in {PathA, PathB}, success \in BOOLEAN, read \in ReadOutcomes,
          write \in WriteOutcomes :
           LET r == logger_log_installation(history, p, success, read, write)
           IN  /\ history' = r.stored
               /\ handler_call' = LoggerCall("log_installation", p, success,
                                             read, write, history, r.returned)
    /\ LedgerOnly

ClearHistory ==
    /\ handler_call.op \in {"InstallLogger", "log_installation",
                            "clear_history"}
    /\ \E write \in WriteOutcomes :
           LET r == logger_clear_history(history, write)
           IN  /\ history' = r.stored
               /\ handler_call' = LoggerCall("clear_history", PathA, FALSE,
                                             "ok", write, history, r.returned)
    /\ LedgerOnly

NextLedger ==
    \/ LogInstallation
    \/ ClearHistory

SpecLedger == InitLedger /\ [][NextLedger]_vars

\* ------------------------------------------------------------ retry engine
\* Most attempts a RetryConfig built here allows (NETWORK_RETRY_CONFIG, which
\* is predefined, allows more).
MaxRetryAttempts == 3

\* Delays are Python floats, in seconds; here they are counted in ticks of a
\* quarter second, in which every delay of the configurations below is whole.
TicksPerSecond == 4

\* The error classes a wrapped operation is made to raise (ValueError stands
\* for the errors outside the SnapWizError hierarchy).
ErrorKinds ==
    {"NetworkError", "NetworkTimeoutError", "DownloadError",
     "InstallationError", "InstallationTimeoutError", "ValueError"}

\* The class of an error with its base classes, from exceptions.py.
mro(kind) ==
    CASE kind = "NetworkError" ->
             {"NetworkError", "SnapWizError", "Exception"}
      [] kind = "NetworkTimeoutError" ->
             {"NetworkTimeoutError", "NetworkError", "SnapWizError",
              "Exception"}
      [] kind = "DownloadError" ->
             {"DownloadError", "NetworkError", "SnapWizError", "Exception"}
      [] kind = "InstallationError" ->
             {"InstallationError", "SnapWizError", "Exception"}
      [] kind = "InstallationTimeoutError" ->
             {"InstallationTimeoutError", "InstallationError", "SnapWizError",
              "Exception"}
      [] OTHER -> {kind, "Exception"}

\* isinstance(error, classes), also the test of an except clause.
isinstance(kind, classes) == mro(kind) \cap classes # {}

\* exceptions.is_retryable_error.
is_retryable_error(kind) ==
    isinstance(kind, {"NetworkTimeoutError", "DownloadError",
                      "InstallationTimeoutError"})

\* retryable_exceptions=None.
NoneArg == {"None"}

\* RetryConfig.__init__.
RetryConfig(max_attempts, initial_delay, backoff_factor, max_delay, retryable_exceptions) ==
    [max_attempts |-> max_attempts,
     initial_delay |-> initial_delay,
     backoff_factor |-> backoff_factor,
     max_delay |-> max_delay,
     retryable_exceptions |->
         IF retryable_exceptions = NoneArg
         THEN {"NetworkError", "NetworkTimeoutError", "DownloadError",
               "InstallationTimeoutError"}
         ELSE retryable_exceptions]

\* The predefined configurations (1.0 s is 4 ticks, a factor 2.0 is 8).
DEFAULT_RETRY_CONFIG == RetryConfig(3, 4, 8, 120, NoneArg)

NETWORK_RETRY_CONFIG ==
    RetryConfig(5, 8, 8, 240,
                {"NetworkError", "NetworkTimeoutError", "DownloadError"})

INSTALLATION_RETRY_CONFIG ==
    RetryConfig(2, 12, 6, 40, {"InstallationTimeoutError"})

PredefinedConfigs ==
    {DEFAULT_RETRY_CONFIG, NETWORK_RETRY_CONFIG, INSTALLATION_RETRY_CONFIG}

\* (initial_delay, backoff_factor, max_delay) of the configurations built by
\* callers: the default's, the installation one's, and one whose initial
\* delay (2.0 s) exceeds its maximum (1.0 s).
DelaySettings == {<<4, 8, 120>>, <<12, 6, 40>>, <<8, 8, 4>>}

\* The configurations explored.  RetryConfig validates nothing, so a
\* max_attempts of 0 can be built.
RetryConfigs ==
    PredefinedConfigs
    \cup {RetryConfig(n, d[1], d[2], d[3], re) :
              n \in 0..MaxRetryAttempts, d \in DelaySettings,
              re \in {NoneArg, {"InstallationTimeoutError"}}}

\* An error raised, or a value returned, by invocation n of the operation.
Error(kind, n) == [kind |-> kind, n |-> n]
Value(n) == [kind |-> "value", n |-> n]
NoError == [kind |-> "None", n |-> 0]

\* One thing the engine did: invoked the operation ("func", with what the
\* invocation produced), called a callback, or slept.
Event(ev, attempt, error, delay) ==
    [ev |-> ev, attempt |-> attempt, error |-> error, delay |-> delay]

\* The except clause as it would be if it named Exception.
caught_any(config, kind) == isinstance(kind, {"Exception"})

\* The except clause "except config.retryable_exceptions".
caught(config, kind) == isinstance(kind, config.retryable_exceptions)

\* The give-up test as it would be with ">" for ">=".
is_last_attempt_late(config, attempt) == attempt > config.max_attempts

\* "if attempt >= config.max_attempts": give up.
is_last_attempt(config, attempt) == attempt >= config.max_attempts

\* The next delay as it would be without the cap.
next_delay_uncapped(config, delay) ==
    (delay * config.backoff_factor) \div TicksPerSecond

\* min(delay * config.backoff_factor, config.max_delay), in ticks.
next_delay(config, delay) ==
    IF delay * config.backoff_factor >= config.max_delay * TicksPerSecond
    THEN config.max_delay
    ELSE (delay * config.backoff_factor) \div TicksPerSecond

\* The frame of a call through the engine: the arguments (config, and which
\* callbacks were given), the locals attempt, delay and last_exception, and
\* what the call did so far.
NewRetryCall(op, config, on_retry, on_final_failure, progress) ==
    [op |-> op,
     config |-> config,
     on_retry_callback |-> on_retry,
     on_final_failure_callback |-> on_final_failure,
     progress_callback |-> progress,
     pc |-> "loop",
     attempt |-> 1,
     delay |-> config.initial_delay,
     last_exception |-> NoError,
     invocations |-> 0,
     events |-> <<>>,
     result |-> NoError]

\* The call of a callback that was given.
callback(given, ev, attempt, error, delay) ==
    IF given THEN <<Event(ev, attempt, error, delay)>> ELSE <<>>

\* Giving up as it would be without the final-failure callback.
on_final_failure_never(f, e) == <<>>

\* "if on_final_failure_callback: on_final_failure_callback(e)".
on_final_failure(f, e) ==
    callback(f.on_final_failure_callback, "on_final_failure", f.attempt, e, 0)

\* What invocation n of the operation produced, for an outcome that is
\* "return" or the class of the error raised.
Produced(outcome, n) ==
    IF outcome = "return" THEN Value(n) ELSE Error(outcome, n)

\* One pass of the for loop of retry_on_failure's wrapper, in which the
\* operation ends with the given outcome.
wrapper(f, outcome) ==
    LET n == f.invocations + 1
        e == Produced(outcome, n)
        called == [f EXCEPT
                       !.invocations = n,
                       !.events = Append(@, Event("func", f.attempt, e, 0))]
    IN  IF outcome = "return"
        THEN [called EXCEPT !.pc = "returned", !.result = e]
        ELSE IF caught(f.config, outcome)
        THEN IF is_last_attempt(f.config, f.attempt)
             THEN [called EXCEPT
                       !.last_exception = e,
                       !.events = @ \o on_final_failure(f, e),
                       !.pc = "raised",
                       !.result = e]
             ELSE [called EXCEPT
                       !.last_exception = e,
                       !.events =
                           @ \o callback(f.on_retry_callback, "on_retry",
                                         f.attempt, e, f.delay)
                             \o <<Event("sleep", f.attempt, NoError, f.delay)>>,
                       !.delay = next_delay(f.config, f.delay),
                       !.attempt = f.attempt + 1]
        ELSE [called EXCEPT !.pc = "raised", !.result = e]

\* One pass of retry_with_progress as it would be if it slept the same
\* delay before every retry.
retry_with_progress_fixed_delay(f, outcome) ==
    [wrapper(f, outcome) EXCEPT !.delay = f.delay]

\* One pass of the for loop of retry_with_progress.
retry_with_progress(f, outcome) ==
    LET n == f.invocations + 1
        e == Produced(outcome, n)
        last == is_last_attempt(f.config, f.attempt)
        called == [f EXCEPT
                       !.invocations = n,
                       !.events =
                           @ \o callback(f.progress_callback, "trying",
                                         f.attempt, NoError, 0)
                             \o <<Event("func", f.attempt, e, 0)>>]
    IN  IF outcome = "return"
        THEN [called EXCEPT
                  !.events = @ \o callback(f.progress_callback, "success",
                                           f.attempt, NoError, 0),
                  !.pc = "returned",
                  !.result = e]
        ELSE IF caught(f.config, outcome)
        THEN LET reported ==
                     [called EXCEPT
                          !.last_exception = e,
                          !.events =
                              @ \o callback(f.progress_callback,
                                            IF f.attempt < f.config.max_attempts
                                            THEN "retrying" ELSE "failed",
                                            f.attempt, e,
                                            IF f.attempt < f.config.max_attempts
                                            THEN f.delay ELSE 0)]
             IN  IF last
                 THEN [reported EXCEPT !.pc = "raised", !.result = e]
                 ELSE [reported EXCEPT
                           !.events = Append(@, Event("sleep", f.attempt,
                                                      NoError, f.delay)),
                           !.delay = next_delay(f.config, f.delay),
                           !.attempt = f.attempt + 1]
        ELSE [called EXCEPT
                  !.events = @ \o callback(f.progress_callback, "error",
                                           f.attempt, e, 0),
                  !.pc = "raised",
                  !.result = e]

\* After the for loop ("Should never reach here"): the last exception is
\* raised if there is one, else the call returns None.
after_loop(f) ==
    IF f.last_exception # NoError
    THEN [f EXCEPT !.pc = "raised", !.result = f.last_exception]
    ELSE [f EXCEPT !.pc = "returned", !.result = NoError]

\* The calls explored: both engines, every configuration, each callback
\* given or not.
RetryCalls ==
    {NewRetryCall("retry_on_failure", c, r, ff, FALSE) :
         c \in RetryConfigs, r \in BOOLEAN, ff \in BOOLEAN}
    \cup {NewRetryCall("retry_with_progress", c, FALSE, FALSE, p) :
              c \in RetryConfigs, p \in BOOLEAN}

\* What an invocation of the wrapped operation can do.
FuncOutcomes == {"return"} \cup ErrorKinds

InitRetry ==
    /\ InitWindow
    /\ run_state = "idle"
    /\ handler_call = "idle"
    /\ retry_call \in RetryCalls

RetryOnly ==
    UNCHANGED <<install_queue, current_installing_index, batch_cancelled,
                buttons, progress_bar, batch_progress_label, installer_thread,
                threads, signals, thread_count, run_attempts, ledger,
                log_output, last_dialog, crashed, current_package, run_state,
                handler_call>>

\* The loop has another pass to make.
InLoop ==
    /\ retry_call.pc = "loop"
    /\ retry_call.attempt <= retry_call.config.max_attempts

WrapperAttempt ==
    /\ retry_call.op = "retry_on_failure"
    /\ InLoop
    /\ \E outcome \in FuncOutcomes :
           retry_call' = wrapper(retry_call, outcome)
    /\ RetryOnly

ProgressAttempt ==
    /\ retry_call.op = "retry_with_progress"
    /\ InLoop
    /\ \E outcome \in FuncOutcomes :
           retry_call' = retry_with_progress(retry_call, outcome)
    /\ RetryOnly

AfterLoop ==
    /\ retry_call.pc = "loop"
    /\ retry_call.attempt > retry_call.config.max_attempts
    /\ retry_call' = after_loop(retry_call)
    /\ RetryOnly

NextRetry ==
    \/ WrapperAttempt
    \/ ProgressAttempt
    \/ AfterLoop

SpecRetry == InitRetry /\ [][NextRetry]_vars

\* ------------------------------------------- the two engines side by side
\* RetryableOperation.execute: retry_with_progress without a progress
\* callback, under the configuration the object was built with.
execute(f, outcome) == retry_with_progress(f, outcome)

\* A wrapped call and a retry_with_progress call (made directly, or through
\* RetryableOperation.execute) under the same configuration, to be given
\* the same operation results.
EnginePairs ==
    {[op |-> "pair", via |-> "retry_with_progress",
      wrapped |-> NewRetryCall("retry_on_failure", c, r, ff, FALSE),
      progress |-> NewRetryCall("retry_with_progress", c, FALSE, FALSE, p)] :
         c \in RetryConfigs, r \in BOOLEAN, ff \in BOOLEAN, p \in BOOLEAN}
    \cup
    {[op |-> "pair", via |-> "execute",
      wrapped |-> NewRetryCall("retry_on_failure", c, FALSE, FALSE, FALSE),
      progress |-> NewRetryCall("retry_with_progress", c, FALSE, FALSE,
                                FALSE)] :
         c \in RetryConfigs}

InitEngines ==
    /\ InitWindow
    /\ run_state = "idle"
    /\ handler_call = "idle"
    /\ retry_call \in EnginePairs

\* The frame has another pass of its loop to make.
HasPass(f) == f.pc = "loop" /\ f.attempt <= f.config.max_attempts

\* The frame has left its loop without returning or raising.
PastLoop(f) == f.pc = "loop" /\ f.attempt > f.config.max_attempts

\* Both engines make their next pass, the operation ending the same way in
\* both.
BothAttempt ==
    /\ HasPass(retry_call.wrapped)
    /\ HasPass(retry_call.progress)
    /\ \E outcome \in FuncOutcomes :
           retry_call' =
               [retry_call EXCEPT
                    !.wrapped = wrapper(@, outcome),
                    !.progress = IF retry_call.via = "execute"
                                 THEN execute(@, outcome)
                                 ELSE retry_with_progress(@, outcome)]
    /\ RetryOnly

\* Both engines run the statements after their loops.
BothAfterLoop ==
    /\ PastLoop(retry_call.wrapped)
    /\ PastLoop(retry_call.progress)
    /\ retry_call' = [retry_call EXCEPT !.wrapped = after_loop(@),
                                        !.progress = after_loop(@)]
    /\ RetryOnly

NextEngines ==
    \/ BothAttempt
    \/ BothAfterLoop

SpecEngines == InitEngines /\ [][NextEngines]_vars

\* ================================================================ claims
Terminal == {"Completed", "Cancelled", "CancelledByUser"}

\* The GUI thread handles a finished signal in this step.
FinishedStep == signals # <<>> /\ signals' = Tail(signals)

\* A finished-handler writes the history and ends the run in this step.
TerminalStep == Len(history') > Len(history) /\ log_output' \in Terminal

\* A new InstallerThread is started in this step.
ThreadStarted == thread_count' > thread_count

NoDuplicates(q) == \A i, j \in 1..Len(q) : q[i] = q[j] => i = j

\* C1: in every reachable state at most one installation is in flight (at
\* most one InstallerThread is inside run()).
C1_AtMostOneInFlight == Cardinality(threads) <= 1

\* C2: a batch starts its install attempts strictly one after the other (an
\* item is only started when no earlier item is still running) and the
\* history entries follow the order in which the attempts were started.
C2_StartsAndAppendsInOrder ==
    [][/\ ThreadStarted => threads = {}
       /\ \A i, j \in 1..Len(logged') : i < j => logged'[i].id < logged'[j].id
      ]_vars

\* C3: when a failed item that is not the last is declined, the run ends at
\* once: the one entry written names the failed item (so no item that was not
\* attempted gets an entry), no further item is started and the queue is
\* dropped.
C3_DeclineEndsRun ==
    [][(FinishedStep /\ log_output' = "CancelledByUser"
        /\ Len(history') > Len(history))
       => /\ history'[Len(history')].package = Head(signals).package_path
          /\ ~history'[Len(history')].success
          /\ Len(history') = Len(history) + 1
          /\ ~ThreadStarted
          /\ install_queue' = <<>>
      ]_vars

\* C4: once cancellation is confirmed while an item is in flight, that item
\* runs to its own outcome, which is recorded for it, and no further item is
\* started.
C4_CancelStopsAfterCurrent ==
    [][/\ (batch_cancelled /\ threads # {}) => ~ThreadStarted
       /\ (batch_cancelled /\ FinishedStep)
          => /\ Len(history') = Len(history) + 1
             /\ history'[Len(history')].package = Head(signals).package_path
             /\ history'[Len(history')].success = Head(signals).success
      ]_vars

\* C5: every installation attempt whose outcome has been handled has exactly
\* one history entry, that entry names the attempted package, and no entry
\* exists for anything else.
C5_OneEntryPerAttempt ==
    /\ Len(history) = thread_count - Cardinality(threads) - Len(signals)
    /\ \A i, j \in 1..Len(logged) : logged[i].id = logged[j].id => i = j
    /\ \A i \in 1..Len(history) : history[i].package = logged[i].package_path

\* C6: run() calls install_package only after validate_package returned true
\* and, when any verification is requested, after verify_package returned
\* success; a failed validation or verification ends the run with a failed
\* outcome and no install call.
C6_InstallOnlyAfterChecks ==
    LET t == run_state
        requested == t.verify_integrity \/ t.verify_signature
                     \/ (t.checksum # "None" /\ t.checksum # "")
    IN  /\ t.install_calls > 0
           => /\ t.valid = "ok"
              /\ t.package_path \in ExistingFiles
              /\ Lower(t.package_path.ext) \in get_supported_extensions
              /\ requested => t.verified = "ok"
              /\ ~requested => t.verified = "skipped"
        /\ (t.valid = "bad" \/ t.verified = "bad")
           => /\ t.pc = "emitted"
              /\ ~t.success
              /\ t.install_calls = 0
        /\ (t.pc \in {"verify", "install"} /\ t.valid = "ok"
            /\ t.verified = "-") => t.install_calls = 0

\* C6 witness: a run with verification requested has verified, installed and
\* emitted its outcome.
C6_Witness ==
    /\ run_state.pc = "emitted"
    /\ run_state.install_calls = 1
    /\ run_state.verified = "ok"
    /\ run_state.verify_signature
    /\ run_state.success

\* C11: every run of InstallerThread.run that has returned has emitted
\* finished exactly once, whichever path it took (failed validation, failed
\* verification, install success or failure, an exception in any step), a
\* failed check or an exception with success false; before it returns it has
\* emitted nothing.
C11_ExactlyOneOutcome ==
    LET t == run_state
    IN  /\ t.pc = "emitted" => t.finished_emits = 1
        /\ t.pc # "emitted" => t.finished_emits = 0
        /\ (t.pc = "emitted" /\ (t.valid # "ok" \/ t.verified \in {"-", "bad"}))
           => ~t.success

\* C11 witness: a run whose verification step raised has emitted its one
\* failed outcome.
C11_Witness ==
    /\ run_state.pc = "emitted"
    /\ run_state.valid = "ok"
    /\ run_state.verified = "-"
    /\ run_state.finished_emits = 1
    /\ ~run_state.success

\* C7: no path occurs twice in the install queue.
C7_QueuePathsUnique == NoDuplicates(install_queue)

\* C8: every step that ends a batch run (completed, cancelled, aborted on a
\* declined failure) leaves the queue empty, the progress at 0 and "0 of 0",
\* no queue row marked (index -1) and the buttons in their idle state.
C8_TerminalStateIsReset ==
    [][TerminalStep
       => /\ install_queue' = <<>>
          /\ current_installing_index' = -1
          /\ progress_bar' = 0
          /\ batch_progress_label' = <<0, 0>>
          /\ ~cancel_btn'
          /\ ~install_btn'
          /\ browse_btn'
          /\ clear_queue_btn'
      ]_vars

\* C8 witness: a run was cancelled while its item was in flight; the item's
\* outcome has been recorded and the window is reset.
C8_Witness ==
    /\ log_output = "Cancelled"
    /\ Len(history) = 1
    /\ install_queue = <<>>
    /\ batch_progress_label = <<0, 0>>

\* C9: a run that reaches Completed has attempted every queued item exactly
\* once, in queue order.
C9_CompletedAttemptsEachOnce ==
    [][(TerminalStep /\ log_output' = "Completed")
       => run_attempts = install_queue]_vars

\* C10: the continue-or-stop question is asked exactly when the finished item
\* failed and is not the last of the queue; in every other case, and when the
\* user continues, the handler moves on by one index (starting that item or
\* ending the run).
C10_AskExactlyOnMidQueueFailure ==
    [][FinishedStep
       => LET success == Head(signals).success
              notLast == current_installing_index < Len(install_queue) - 1
              asked == last_dialog' = "PackageFailed"
              advanced ==
                  \/ /\ current_installing_index'
                          = current_installing_index + 1
                     /\ ThreadStarted
                  \/ TerminalStep
          IN  /\ asked <=> (~success /\ notLast)
              /\ advanced
      ]_vars

\* ------------------------------------------------ claims on verify_package
\* The position of a check in the order the specification fixes.
CheckRank(c) ==
    CASE c = "exists" -> 1
      [] c = "size" -> 2
      [] c = "checksum" -> 3
      [] c = "signature" -> 4
      [] c = "integrity" -> 5

\* The external tools a check may run.
ToolsOfCheck(c) ==
    CASE c = "signature" -> {"gpg", "rpm_checksig"}
      [] c = "integrity" -> {"dpkg-deb", "rpm_qp"}
      [] OTHER -> {}

\* Check c is one the call asks for.
CheckRequested(c, h) ==
    CASE c = "checksum" -> h.checksum \notin {"None", ""}
      [] c = "signature" -> h.check_signature
      [] OTHER -> TRUE

\* Check c, which was run, did not pass.
CheckFailed(c, h) ==
    LET d == h.result.details
    IN  CASE c = "exists" -> h.package_path \notin HandlerFiles
          [] c = "size" -> h.file_size < MinPackageSize
          [] c = "checksum" -> d.checksum_match # "True"
          [] c = "signature" -> d.signature_valid # "True"
          [] c = "integrity" -> ~d.integrity_ok

VerifyReturned ==
    handler_call.op = "verify_package" /\ handler_call.pc = "returned"

\* C12: verify_package runs its checks in the order existence, size,
\* checksum (only if given), signature (only if requested), integrity; every
\* check before the last one run has passed, no requested check is left out
\* before it, a failed call ends with the failing check, a successful call
\* ends with the integrity check, and only tools of the checks run are run.
C12_ChecksInOrderStopAtFirstFailure ==
    VerifyReturned =>
        LET h == handler_call
            d == h.result.details
            n == Len(d.checks)
            ran == {d.checks[i] : i \in 1..n}
        IN  /\ n >= 1
            /\ d.checks[1] = "exists"
            /\ \A i, j \in 1..n :
                   i < j => CheckRank(d.checks[i]) < CheckRank(d.checks[j])
            /\ \A c \in ran : CheckRequested(c, h)
            /\ \A c \in {"exists", "size", "checksum", "signature",
                         "integrity"} :
                   (CheckRank(c) < CheckRank(d.checks[n])
                    /\ CheckRequested(c, h)) => c \in ran
            /\ \A i \in 1..(n - 1) : ~CheckFailed(d.checks[i], h)
            /\ ~h.result.success => CheckFailed(d.checks[n], h)
            /\ h.result.success
               => d.checks[n] = "integrity" /\ ~CheckFailed("integrity", h)
            /\ \A k \in 1..Len(d.tools) :
                   \E c \in ran : d.tools[k].tool \in ToolsOfCheck(c)
            /\ ("signature" \notin ran) => d.looked = <<>>

\* C12 witness: a call with a matching checksum stopped at an invalid
\* signature: four checks run, the signature tool run, no inspection tool.
C12_Witness ==
    /\ VerifyReturned
    /\ handler_call.result.details.checks
           = <<"exists", "size", "checksum", "signature">>
    /\ handler_call.result.details.checksum_match = "True"
    /\ handler_call.result.details.tools
           = <<[tool |-> "gpg", sig_path |-> ".asc"]>>
    /\ ~handler_call.result.success

\* C13: for an existing file smaller than 1024 bytes verify_package fails
\* with the too-small message whatever checksum, checksum type and signature
\* setting it is given, computes no checksum and runs no external tool.
C13_TooSmallRejectedFirst ==
    (VerifyReturned /\ handler_call.package_path \in HandlerFiles
     /\ handler_call.file_size < MinPackageSize)
    => LET rs == handler_call.result
       IN  /\ ~rs.success
           /\ rs.message = [tag |-> "too_small",
                            size |-> handler_call.file_size]
           /\ rs.details.file_exists
           /\ rs.details.file_size = handler_call.file_size
           /\ ~rs.details.hashed
           /\ rs.details.checksum_match = "None"
           /\ rs.details.signature_valid = "None"
           /\ rs.details.tools = <<>>
           /\ rs.details.looked = <<>>

\* C13 witness: a file of 1023 bytes given with its right checksum and a
\* signature request has been rejected.
C13_Witness ==
    /\ VerifyReturned
    /\ handler_call.package_path = PathA
    /\ handler_call.file_size = MinPackageSize - 1
    /\ handler_call.checksum = "ab12"
    /\ handler_call.check_signature
    /\ handler_call.result.message.tag = "too_small"

\* C14: when a checksum is given and is not the digest computed (compared
\* without regard to letter case), verify_package fails with the mismatch
\* message carrying the expected and the computed value, records
\* checksum_match False and runs neither the signature nor the integrity
\* check.
C14_ChecksumMismatchIsFatal ==
    (VerifyReturned /\ handler_call.package_path \in HandlerFiles
     /\ handler_call.file_size >= MinPackageSize
     /\ handler_call.checksum \notin {"None", ""}
     /\ Lower(handler_call.checksum_type) \in {"sha256", "md5"}
     /\ Lower(handler_call.checksum)
            # (IF Lower(handler_call.checksum_type) = "sha256"
               THEN Sha256OfFile ELSE Md5OfFile))
    => LET rs == handler_call.result
       IN  /\ ~rs.success
           /\ rs.message.tag = "checksum_mismatch"
           /\ rs.message.expected = handler_call.checksum
           /\ rs.message.got = (IF Lower(handler_call.checksum_type) = "sha256"
                                THEN Sha256OfFile ELSE Md5OfFile)
           /\ rs.details.checksum_match = "False"
           /\ rs.details.signature_valid = "None"
           /\ ~rs.details.integrity_ok
           /\ rs.details.checks = <<"exists", "size", "checksum">>
           /\ rs.details.tools = <<>>
           /\ rs.details.looked = <<>>

\* C14 witness: the md5 digest given where sha256 is computed, with a
\* signature requested: the call has failed on the checksum.
C14_Witness ==
    /\ VerifyReturned
    /\ handler_call.checksum = "cd34"
    /\ handler_call.checksum_type = "sha256"
    /\ handler_call.check_signature
    /\ handler_call.result.message.tag = "checksum_mismatch"
    /\ handler_call.result.details.checksum_match = "False"

\* C15: a failed verify_package never reports integrity_ok; a successful one
\* reports file_exists and integrity_ok, checksum_match True exactly when a
\* checksum was given and None otherwise, signature_valid True exactly when
\* the signature check was requested and None otherwise.
C15_AllOrNothing ==
    VerifyReturned =>
        LET h == handler_call
            rs == h.result
            d == rs.details
            given == h.checksum \notin {"None", ""}
        IN  /\ ~rs.success => ~d.integrity_ok
            /\ rs.success
               => /\ d.file_exists
                  /\ d.integrity_ok
                  /\ d.checksum_match = (IF given THEN "True" ELSE "None")
                  /\ d.signature_valid
                         = (IF h.check_signature THEN "True" ELSE "None")
            /\ (d.checksum_match = "False" \/ d.signature_valid = "False")
               => ~rs.success

\* C15 witness: a successful call with a checksum given and the signature
\* requested.
C15_Witness ==
    /\ VerifyReturned
    /\ handler_call.result.success
    /\ handler_call.checksum = "AB12"
    /\ handler_call.check_signature
    /\ handler_call.result.details.checksum_match = "True"
    /\ handler_call.result.details.signature_valid = "True"

\* C16: whenever the integrity check of a .deb or .rpm is run, it passes when
\* the inspection tool is absent or exits with status 0 and fails when the
\* tool exits with another status or times out, and verify_package succeeds
\* or fails accordingly.
C16_IntegrityByToolOutcome ==
    (VerifyReturned
     /\ \E i \in 1..Len(handler_call.result.details.checks) :
            handler_call.result.details.checks[i] = "integrity"
     /\ Lower(handler_call.package_path.ext) \in {".deb", ".rpm"})
    => LET rs == handler_call.result
           o == handler_call.integrity_tool
       IN  /\ o \in {"absent", "exit0"}
              => rs.details.integrity_ok /\ rs.success
           /\ o \in {"exit1", "timeout"}
              => /\ ~rs.details.integrity_ok
                 /\ ~rs.success
                 /\ rs.message.tag = "integrity_failed"
           /\ Len(rs.details.tools) >= 1
           /\ rs.details.tools[Len(rs.details.tools)].tool
                  = (IF Lower(handler_call.package_path.ext) = ".deb"
                     THEN "dpkg-deb" ELSE "rpm_qp")

\* C16 witness: a .deb verified on a host without dpkg-deb has passed.
C16_Witness ==
    /\ VerifyReturned
    /\ handler_call.package_path = PathA
    /\ handler_call.integrity_tool = "absent"
    /\ handler_call.result.success
    /\ handler_call.result.details.tools
           = <<[tool |-> "dpkg-deb", sig_path |-> "-"]>>

\* C17: when the signature check of a .deb is run, the .asc sibling is looked
\* for first and used if present, the .sig sibling second; with neither the
\* check fails without running gpg; with a signature file the check passes
\* only if gpg is present, ends in time and exits with status 0.  A failed
\* signature check fails the call.
C17_DetachedSignature ==
    (VerifyReturned
     /\ \E i \in 1..Len(handler_call.result.details.checks) :
            handler_call.result.details.checks[i] = "signature"
     /\ Lower(handler_call.package_path.ext) = ".deb")
    => LET h == handler_call
           rs == h.result
           d == rs.details
           failed == /\ ~rs.success
                     /\ d.signature_valid = "False"
                     /\ rs.message.tag = "signature_failed"
       IN  /\ d.looked = (IF h.asc THEN <<".asc">> ELSE <<".asc", ".sig">>)
           /\ (~h.asc /\ ~h.sig)
              => failed /\ d.tools = <<>>
                 /\ rs.message.msg = "no_signature_file"
           /\ (h.asc \/ h.sig)
              => /\ Len(d.tools) >= 1
                 /\ d.tools[1] = [tool |-> "gpg",
                                  sig_path |-> IF h.asc THEN ".asc"
                                               ELSE ".sig"]
                 /\ h.sig_tool \in {"absent", "exit1", "timeout"} => failed
                 /\ h.sig_tool \in {"exit0", "exit0_no_OK"}
                    => d.signature_valid = "True"

\* C17 witness: a .deb with neither signature file, signature requested: the
\* call has failed and no tool was run.
C17_Witness ==
    /\ VerifyReturned
    /\ handler_call.package_path = PathA
    /\ ~handler_call.asc /\ ~handler_call.sig
    /\ handler_call.result.message
           = [tag |-> "signature_failed", msg |-> "no_signature_file"]
    /\ handler_call.result.details.tools = <<>>

\* config.CHECKSUM_ALGORITHMS.
CHECKSUM_ALGORITHMS == {"sha256", "md5", "sha1", "sha512"}

\* C27 as stated: verify_package on an existing file of sufficient size,
\* given an expected checksum and one of the algorithm names sha256, md5,
\* sha1, sha512, computes the digest and decides match or mismatch; it does
\* not fail for want of the algorithm.
C27_AsStated ==
    (/\ VerifyReturned
     /\ handler_call.package_path \in HandlerFiles
     /\ handler_call.file_size >= MinPackageSize
     /\ handler_call.checksum \notin {"None", ""}
     /\ handler_call.checksum_type \in CHECKSUM_ALGORITHMS)
    => /\ handler_call.result.details.hashed
       /\ handler_call.result.details.checksum_match \in {"True", "False"}
       /\ handler_call.result.message.tag # "verification_error"

\* --------------------------------------------- claims on install_package
\* The subprocesses that install (or repair) something, as opposed to the
\* probes ("which", "systemctl is-active").
InstallCommands ==
    {"pkexec apt install", "pkexec dpkg -i", "pkexec apt-get install -f",
     "pkexec dnf install", "pkexec yum install", "pkexec zypper install",
     "pkexec rpm -ivh", "pkexec snap install --dangerous",
     "flatpak install --bundle", "pkexec flatpak install --system --bundle"}

\* The install subprocesses a call started, in order.
InstallsOf(calls) == SelectSeq(calls, LAMBDA c : c \in InstallCommands)

\* The call of the given operation has ended (returned, raised or blocked).
CallEnded(op) == handler_call.op = op /\ handler_call.pc # "call"

\* The message an install subprocess that ended with outcome o leads to.
TagOfOutcome(o) ==
    CASE o = "exit0" -> "installed"
      [] o \in {"exit1", "exit1_no_stderr"} -> "install_failed"
      [] o = "timeout" -> "timed_out"
      [] OTHER -> "install_error"

\* C18: install_package on a path whose extension is none of .deb, .rpm,
\* .snap, .flatpak (compared in lower case) returns the failed outcome
\* "Unsupported package format" and starts no subprocess, not even a probe.
C18_UnsupportedFormatNoSubprocess ==
    (CallEnded("install_package")
     /\ Lower(handler_call.package_path.ext)
            \notin {".deb", ".rpm", ".snap", ".flatpak"})
    => /\ handler_call.pc = "returned"
       /\ ~handler_call.result.success
       /\ handler_call.result.message.tag = "unsupported_format"
       /\ handler_call.result.calls = <<>>

\* C18 witness: a .txt path given to install_package on a host with every
\* command present has been refused.
C18_Witness ==
    /\ CallEnded("install_package")
    /\ handler_call.package_path = PathC
    /\ handler_call.commands = Commands
    /\ handler_call.first = "exit0"
    /\ handler_call.result.message.tag = "unsupported_format"

C20_FlatpakTwoAttempts ==
    (CallEnded("install_package")
     /\ Lower(handler_call.package_path.ext) = ".flatpak")
    => LET h == handler_call
           inst == InstallsOf(h.result.calls)
           last == IF Len(inst) = 2 THEN h.second ELSE h.first
       IN  /\ Len(inst) <= 2
           /\ ("flatpak" \in h.commands) <=> (Len(inst) >= 1)
           /\ Len(inst) >= 1 => inst[1] = "flatpak install --bundle"
           /\ Len(inst) = 2
              <=> ("flatpak" \in h.commands
                   /\ h.first \in {"exit1", "exit1_no_stderr"})
           /\ Len(inst) = 2
              => inst[2] = "pkexec flatpak install --system --bundle"
           /\ Len(inst) >= 1
              => /\ h.result.success = (last = "exit0")
                 /\ h.result.message.tag = TagOfOutcome(last)
           /\ (Len(inst) >= 1 /\ h.first = "exit0")
              => Len(inst) = 1 /\ h.result.success

\* C20 witness: the user-scope install failed and the system-scope install
\* succeeded: two attempts, outcome success.
C20_Witness ==
    /\ CallEnded("install_package")
    /\ handler_call.package_path = PathFlatpak
    /\ handler_call.first = "exit1"
    /\ handler_call.second = "exit0"
    /\ handler_call.result.success
    /\ InstallsOf(handler_call.result.calls)
           = <<"flatpak install --bundle",
               "pkexec flatpak install --system --bundle">>

\* C21 as stated: a .deb is installed with apt when apt is present, else
\* with dpkg; when the dpkg install fails a fix-dependencies pass is run, and
\* however that pass ends the outcome returned is the dpkg install's failure
\* with the dpkg install's error output.
C21_AsStated ==
    (CallEnded("install_package")
     /\ Lower(handler_call.package_path.ext) = ".deb")
    => LET h == handler_call
           inst == InstallsOf(h.result.calls)
           apt == "apt" \in h.commands
           dpkg == "dpkg" \in h.commands
           failed == h.first \in {"exit1", "exit1_no_stderr"}
       IN  /\ apt => inst = <<"pkexec apt install">>
           /\ (~apt /\ dpkg /\ ~failed) => inst = <<"pkexec dpkg -i">>
           /\ (~apt /\ dpkg /\ failed)
              => /\ inst = <<"pkexec dpkg -i", "pkexec apt-get install -f">>
                 /\ ~h.result.success
                 /\ h.result.message.tag = "install_failed"
                 /\ h.result.message.text
                        = (IF h.first = "exit1" THEN "stderr" ELSE "stdout")

\* C22 as stated: every subprocess install_package starts is bounded by a
\* timeout, so every call returns; a subprocess that exceeds its timeout
\* gives the failed outcome with the timed-out error.
C22_AsStated ==
    CallEnded("install_package")
    => LET h == handler_call
           inst == InstallsOf(h.result.calls)
       IN  /\ h.pc = "returned"
           /\ ((Len(inst) = 1 /\ h.first = "timeout")
               \/ (Len(inst) = 2 /\ h.second = "timeout"))
              => /\ ~h.result.success
                 /\ h.result.message.tag = "timed_out"

\* The commands each format's install routine asks for, in the order asked.
BackendsOf(package_type) ==
    CASE package_type = ".deb" -> <<"apt", "dpkg">>
      [] package_type = ".rpm" -> rpm_managers
      [] package_type = ".snap" -> <<"snap">>
      [] package_type = ".flatpak" -> <<"flatpak">>
      [] OTHER -> <<>>

\* C23: when none of the commands that can install the path's format is on
\* the host, install_package returns the failed outcome that tells which
\* format's backend is missing, having run each probe once and started no
\* install subprocess, and the call is over: nothing is run again.
C23_NoBackendIsFinal ==
    LET h == handler_call
        package_type == Lower(h.package_path.ext)
        backends == BackendsOf(package_type)
    IN  (CallEnded("install_package")
         /\ backends # <<>>
         /\ \A i \in 1..Len(backends) : backends[i] \notin h.commands)
        => /\ h.pc = "returned"
           /\ ~h.result.success
           /\ h.result.message.tag
                  = (CASE package_type = ".deb" -> "no_manager_deb"
                       [] package_type = ".rpm" -> "no_manager_rpm"
                       [] package_type = ".snap" -> "snap_not_installed"
                       [] OTHER -> "flatpak_not_installed")
           /\ InstallsOf(h.result.calls) = <<>>
           /\ h.result.calls
                  = (CASE package_type = ".deb" -> <<"which apt", "which dpkg">>
                       [] package_type = ".rpm" -> rpm_probes(4)
                       [] package_type = ".snap" -> <<"which snap">>
                       [] OTHER -> <<"which flatpak">>)
           /\ ~ENABLED InstallCall

\* C23 witness: a.deb on a host that has the rpm, snap and flatpak commands
\* but neither apt nor dpkg has been refused.
C23_Witness ==
    /\ CallEnded("install_package")
    /\ handler_call.package_path = PathA
    /\ handler_call.commands = {"rpm", "snap", "flatpak"}
    /\ handler_call.first = "exit0"
    /\ handler_call.result.message.tag = "no_manager_deb"

\* ------------------------------------------------- claims on the retry engine
\* The invocations of the wrapped operation a call made, and its sleeps.
FuncEvents(f) == SelectSeq(f.events, LAMBDA x : x.ev = "func")
Sleeps(f) == SelectSeq(f.events, LAMBDA x : x.ev = "sleep")

\* The error class is on the allow-list of the call's configuration.
AllowListed(f, kind) == isinstance(kind, f.config.retryable_exceptions)

\* Every invocation so far raised an allow-listed error.
AlwaysAllowListed(f) ==
    \A i \in 1..Len(FuncEvents(f)) :
        AllowListed(f, FuncEvents(f)[i].error.kind)

\* C24: with max_attempts >= 1, while every invocation raises an
\* allow-listed error the engine (retry_on_failure and retry_with_progress)
\* goes on until the operation was invoked exactly max_attempts times, with
\* max_attempts - 1 sleeps, one after each invocation but the last, and then
\* raises the error of the last invocation.
C24_ExhaustionCounts ==
    LET f == retry_call
        calls == FuncEvents(f)
        n == f.config.max_attempts
    IN  (n >= 1 /\ AlwaysAllowListed(f))
        => /\ f.invocations = Len(calls)
           /\ Len(calls) <= n
           /\ f.pc = "loop"
              => Len(calls) < n /\ Len(Sleeps(f)) = Len(calls)
           /\ f.pc # "loop"
              => /\ f.pc = "raised"
                 /\ Len(calls) = n
                 /\ Len(Sleeps(f)) = n - 1
                 /\ f.result = calls[n].error
                 /\ f.result.n = n

\* C24 witness: under the default configuration (three attempts) the wrapper
\* invoked an operation three times, each raising an allow-listed error, and
\* raised the third one.
C24_Witness ==
    /\ retry_call.op = "retry_on_failure"
    /\ retry_call.config = DEFAULT_RETRY_CONFIG
    /\ AlwaysAllowListed(retry_call)
    /\ retry_call.pc = "raised"
    /\ retry_call.invocations = 3
    /\ Len(Sleeps(retry_call)) = 2
    /\ retry_call.result = Error("DownloadError", 3)
    /\ FuncEvents(retry_call)[1].error.kind = "NetworkTimeoutError"

\* C25: once an invocation of the operation raised an error that is not on
\* the allow-list, the call has ended by raising that very error, and after
\* that invocation there is no further invocation, no sleep, no retry
\* callback and no final-failure callback; if it was the first invocation,
\* the operation was invoked exactly once.
C25_NotAllowListedPropagates ==
    LET f == retry_call
        ev == f.events
    IN  \A i \in 1..Len(ev) :
            (/\ ev[i].ev = "func"
             /\ ev[i].error.kind \in ErrorKinds
             /\ ~AllowListed(f, ev[i].error.kind))
            => /\ f.pc = "raised"
               /\ f.result = ev[i].error
               /\ f.invocations = ev[i].error.n
               /\ \A j \in (i + 1)..Len(ev) :
                      ev[j].ev \notin {"func", "sleep", "on_retry",
                                       "on_final_failure"}
               /\ ev[i].attempt = 1 => f.invocations = 1

\* C25 witness: under the default configuration with both callbacks given,
\* the first invocation raised an InstallationError (not on the allow-list)
\* and the wrapper raised it having done nothing else.
C25_Witness ==
    /\ retry_call.op = "retry_on_failure"
    /\ retry_call.config = DEFAULT_RETRY_CONFIG
    /\ retry_call.on_retry_callback
    /\ retry_call.on_final_failure_callback
    /\ retry_call.pc = "raised"
    /\ retry_call.result = Error("InstallationError", 1)
    /\ retry_call.events
           = <<Event("func", 1, Error("InstallationError", 1), 0)>>

\* The failure of the invocation at event i was retried: the engine slept
\* after it in order to try again.
Retried(f, i) ==
    \E j \in (i + 1)..Len(f.events) :
        f.events[j].ev = "sleep" /\ f.events[j].attempt = f.events[i].attempt

\* C26 as stated: under the default and every predefined configuration a
\* failure is retried only if its class is NetworkTimeoutError,
\* DownloadError or InstallationTimeoutError (a plain NetworkError is not),
\* and the default allow-list decides every error raised as
\* is_retryable_error does.
C26_AsStated ==
    LET f == retry_call
        ev == f.events
    IN  f.config \in PredefinedConfigs
        => \A i \in 1..Len(ev) :
               (ev[i].ev = "func" /\ ev[i].error.kind \in ErrorKinds)
               => /\ Retried(f, i) => is_retryable_error(ev[i].error.kind)
                  /\ f.config = DEFAULT_RETRY_CONFIG
                     => (AllowListed(f, ev[i].error.kind)
                         <=> is_retryable_error(ev[i].error.kind))

\* The delay of the n-th sleep of a call as the rule gives it:
\* initial_delay, then each time the smaller of the previous delay times the
\* factor and max_delay (in ticks).
RECURSIVE NthDelay(_, _)
NthDelay(config, n) ==
    IF n <= 1 THEN config.initial_delay
    ELSE LET product == NthDelay(config, n - 1) * config.backoff_factor
         IN  IF product <= config.max_delay * TicksPerSecond
             THEN product \div TicksPerSecond
             ELSE config.max_delay

\* C29: in retry_on_failure, every allow-listed failure with attempts
\* remaining is followed at once by the retry callback (when one is given)
\* called with the attempt number, that error and the current delay, then by
\* a sleep of exactly that delay; the n-th sleep lasts initial_delay for
\* n = 1 and min(previous delay * factor, max_delay) after that, the delay
\* held for the next sleep follows the same rule, and the attempt numbers
\* given to the callback are 1, 2, ... in order.
C29_BackoffSchedule ==
    LET f == retry_call
        ev == f.events
        sleeps == Sleeps(f)
        retries == SelectSeq(ev, LAMBDA x : x.ev = "on_retry")
        step == IF f.on_retry_callback THEN 2 ELSE 1
    IN  f.op = "retry_on_failure"
        => /\ \A i \in 1..Len(ev) :
                  (/\ ev[i].ev = "func"
                   /\ AllowListed(f, ev[i].error.kind)
                   /\ ev[i].attempt < f.config.max_attempts)
                  => /\ Len(ev) >= i + step
                     /\ ev[i + step]
                            = Event("sleep", ev[i].attempt, NoError,
                                    NthDelay(f.config, ev[i].attempt))
                     /\ f.on_retry_callback
                        => ev[i + 1]
                               = Event("on_retry", ev[i].attempt, ev[i].error,
                                       NthDelay(f.config, ev[i].attempt))
           /\ \A n \in 1..Len(sleeps) :
                  sleeps[n].delay = NthDelay(f.config, n)
           /\ f.delay = NthDelay(f.config, Len(sleeps) + 1)
           /\ Len(retries) = (IF f.on_retry_callback THEN Len(sleeps) ELSE 0)
           /\ \A n \in 1..Len(retries) : retries[n].attempt = n

\* C29 witness: under the default configuration with a retry callback, two
\* allow-listed failures were each followed by the callback and a sleep, of
\* 1.0 s and then 2.0 s, and the delay now held is 4.0 s.
C29_Witness ==
    /\ retry_call.op = "retry_on_failure"
    /\ retry_call.config = DEFAULT_RETRY_CONFIG
    /\ retry_call.pc = "loop"
    /\ retry_call.attempt = 3
    /\ retry_call.delay = 4 * TicksPerSecond
    /\ retry_call.events
           = <<Event("func", 1, Error("DownloadError", 1), 0),
               Event("on_retry", 1, Error("DownloadError", 1),
                     1 * TicksPerSecond),
               Event("sleep", 1, NoError, 1 * TicksPerSecond),
               Event("func", 2, Error("NetworkTimeoutError", 2), 0),
               Event("on_retry", 2, Error("NetworkTimeoutError", 2),
                     2 * TicksPerSecond),
               Event("sleep", 2, NoError, 2 * TicksPerSecond)>>

\* C30: in retry_on_failure the final-failure callback (when one is given)
\* is called exactly when the last allowed attempt raised an allow-listed
\* error: once, with that error, as the last thing before the error is
\* raised to the caller.  It is not called when the operation returned or
\* when an error off the allow-list went through, and the retry callback is
\* never called for the last attempt.
C30_FinalFailureCallback ==
    LET f == retry_call
        ev == f.events
        finals == SelectSeq(ev, LAMBDA x : x.ev = "on_final_failure")
        retries == SelectSeq(ev, LAMBDA x : x.ev = "on_retry")
        exhausted == /\ f.pc = "raised"
                     /\ f.invocations = f.config.max_attempts
                     /\ AlwaysAllowListed(f)
    IN  f.op = "retry_on_failure"
        => /\ Len(finals) <= 1
           /\ Len(finals) = 1 <=> (f.on_final_failure_callback /\ exhausted)
           /\ Len(finals) = 1
              => /\ ev[Len(ev)]
                        = Event("on_final_failure", f.config.max_attempts,
                                f.result, 0)
                 /\ ev[Len(ev) - 1]
                        = Event("func", f.config.max_attempts, f.result, 0)
                 /\ f.result.n = f.invocations
           /\ (f.pc = "returned" \/ ~AlwaysAllowListed(f)) => finals = <<>>
           /\ \A n \in 1..Len(retries) :
                  retries[n].attempt < f.config.max_attempts

\* C30 witness: under the installation configuration (two attempts) with
\* both callbacks given, two installation timeouts ended the call: the retry
\* callback once, for attempt 1, and the final-failure callback once, with
\* the second error, which was raised.
C30_Witness ==
    /\ retry_call.op = "retry_on_failure"
    /\ retry_call.config = INSTALLATION_RETRY_CONFIG
    /\ retry_call.pc = "raised"
    /\ retry_call.result = Error("InstallationTimeoutError", 2)
    /\ retry_call.events
           = <<Event("func", 1, Error("InstallationTimeoutError", 1), 0),
               Event("on_retry", 1, Error("InstallationTimeoutError", 1),
                     3 * TicksPerSecond),
               Event("sleep", 1, NoError, 3 * TicksPerSecond),
               Event("func", 2, Error("InstallationTimeoutError", 2), 0),
               Event("on_final_failure", 2,
                     Error("InstallationTimeoutError", 2), 0)>>

\* ------------------------------------------ claims on the backend probes
\* C28 as stated: the backends are probed at construction only; afterwards
\* the probe result is unchanged, an install runs no probe of its own, and
\* the installer it starts is the one the startup tool set selects, even if
\* the host's tool set has changed since.
C28_AsStated ==
    (handler_call.op = "PackageHandler" /\ handler_call.pc # "new")
    => LET h == handler_call
           at_startup == [h EXCEPT !.commands = h.startup]
       IN  /\ h.available_managers = detect_all_managers(at_startup)
           /\ h.package_manager = detect_package_manager(at_startup)
           /\ \A i \in 1..Len(h.result.calls) :
                  h.result.calls[i]
                      \in InstallCommands \cup {"systemctl is-active snapd"}
           /\ h.pc = "returned"
              => InstallsOf(h.result.calls)
                     = InstallsOf(handler_install_package(at_startup).calls)

\* ------------------------------------- claims on the rpm install routine
\* The install subprocess of each rpm manager.
RpmInstallOf(manager) ==
    CASE manager = "dnf" -> "pkexec dnf install"
      [] manager = "yum" -> "pkexec yum install"
      [] manager = "zypper" -> "pkexec zypper install"
      [] OTHER -> "pkexec rpm -ivh"

\* C31: installing an .rpm starts exactly one install subprocess when any of
\* dnf, yum, zypper, rpm is on the host: that of the first one present in
\* this order; whatever its outcome, that outcome is returned and no other
\* manager is run.
C31_RpmFirstPresentOnly ==
    (CallEnded("install_package")
     /\ Lower(handler_call.package_path.ext) = ".rpm"
     /\ \E i \in 1..Len(rpm_managers) :
            rpm_managers[i] \in handler_call.commands)
    => LET h == handler_call
           inst == InstallsOf(h.result.calls)
           present == {i \in 1..Len(rpm_managers) :
                           rpm_managers[i] \in h.commands}
           chosen == CHOOSE i \in present : \A j \in present : i <= j
       IN  /\ inst = <<RpmInstallOf(rpm_managers[chosen])>>
           /\ h.result.success = (h.first = "exit0")
           /\ h.result.message.tag = TagOfOutcome(h.first)

\* C31 witness: the .RPM path on a host with yum, zypper and rpm but no dnf; the
\* yum install failed, the failure was returned and nothing else was run.
C31_Witness ==
    /\ CallEnded("install_package")
    /\ handler_call.package_path = PathB
    /\ handler_call.commands = {"yum", "zypper", "rpm"}
    /\ handler_call.first = "exit1"
    /\ ~handler_call.result.success
    /\ handler_call.result.message.tag = "install_failed"
    /\ handler_call.result.calls
           = <<"which dnf", "which yum", "pkexec yum install">>

\* ------------------------------------- claims on the outcome of an install
\* The outcome of the install subprocess whose exit status the routine
\* tests: the system-scope install when a .flatpak took two, else the first.
StatusTested(h) ==
    IF Lower(h.package_path.ext) = ".flatpak"
       /\ Len(InstallsOf(h.result.calls)) = 2
    THEN h.second ELSE h.first

\* C32 as stated: in every install routine an install subprocess that exits
\* with status 0 gives the succeeded outcome with the subprocess's stdout,
\* and one that exits with another status gives the failed outcome with its
\* stderr when that is not empty and its stdout otherwise.
C32_AsStated ==
    (CallEnded("install_package")
     /\ InstallsOf(handler_call.result.calls) # <<>>)
    => LET h == handler_call
           o == StatusTested(h)
       IN  /\ o = "exit0"
              => /\ h.result.success
                 /\ h.result.message = [tag |-> "installed", text |-> "stdout"]
           /\ o = "exit1"
              => /\ ~h.result.success
                 /\ h.result.message
                        = [tag |-> "install_failed", text |-> "stderr"]
           /\ o = "exit1_no_stderr"
              => /\ ~h.result.success
                 /\ h.result.message
                        = [tag |-> "install_failed", text |-> "stdout"]

\* ------------------------------ claims on the queue under a running install
\* C33 as stated: every history entry written when a batch install finishes
\* names the package the finished thread was run on, whatever was removed
\* from or added to the queue while it ran.
C33_AsStated ==
    /\ Len(logged) = Len(history)
    /\ \A i \in 1..Len(history) :
           history[i].package = logged[i].package_path

\* C34 as stated: whenever a finished signal is about to be handled, the
\* executing index is an index of the queue: 0 <= index < len(queue).
C34_AsStated ==
    (signals # <<>> /\ ~crashed)
    => /\ 0 <= current_installing_index
       /\ current_installing_index < Len(install_queue)

\* ------------------------------------------------- claims on the history
\* The list a is the beginning of the list b.
IsPrefix(a, b) == Len(a) <= Len(b) /\ SubSeq(b, 1, Len(a)) = a

\* C35 as stated: log_installation never removes an entry, and a call that
\* wrote the file leaves the history held before it followed by exactly the
\* one new entry, also when reading the file failed.
C35_AsStated ==
    handler_call.op = "log_installation"
    => /\ IsPrefix(handler_call.before, history)
       /\ handler_call.returned
          => history = Append(handler_call.before,
                              entry_of(handler_call.package_path,
                                       handler_call.success))

\* ------------------------------------- further claims on the retry engine
\* C36 as stated: every delay the engine sleeps, and every delay it hands to
\* the retry callback, is at most the configuration's max_delay.
C36_AsStated ==
    \A i \in 1..Len(retry_call.events) :
        retry_call.events[i].ev \in {"sleep", "on_retry"}
        => retry_call.events[i].delay <= retry_call.config.max_delay

\* C37 as stated: a call through the engine that has ended invoked the
\* operation at least once, and ended by returning the value the last
\* invocation returned or by raising the error the last invocation raised.
C37_AsStated ==
    retry_call.pc \in {"returned", "raised"}
    => LET calls == FuncEvents(retry_call)
       IN  /\ Len(calls) >= 1
           /\ retry_call.result = calls[Len(calls)].error
           /\ retry_call.pc = "returned"
              <=> retry_call.result.kind = "value"

\* The delays a call slept, in order.
SleepDelays(f) == [n \in 1..Len(Sleeps(f)) |-> Sleeps(f)[n].delay]

\* C38: given the same configuration and the same operation results,
\* retry_on_failure and retry_with_progress (called directly or through
\* RetryableOperation.execute) are at every moment at the same point of
\* their loops, have invoked the operation equally often with the same
\* results, have slept the same delays, hold the same next delay, and end
\* with the same returned value or raised error.
C38_EnginesEquivalent ==
    LET a == retry_call.wrapped
        b == retry_call.progress
    IN  /\ a.pc = b.pc
        /\ a.attempt = b.attempt
        /\ a.invocations = b.invocations
        /\ FuncEvents(a) = FuncEvents(b)
        /\ SleepDelays(a) = SleepDelays(b)
        /\ a.delay = b.delay
        /\ a.last_exception = b.last_exception
        /\ a.result = b.result

\* C38 witness: under the network configuration both engines were given two
\* download failures and then a value: both slept 2.0 s and 4.0 s and
\* returned the value of the third invocation.
C38_Witness ==
    /\ retry_call.wrapped.config = NETWORK_RETRY_CONFIG
    /\ retry_call.progress.progress_callback
    /\ retry_call.wrapped.pc = "returned"
    /\ retry_call.progress.pc = "returned"
    /\ retry_call.progress.result = Value(3)
    /\ FuncEvents(retry_call.progress)[1].error = Error("DownloadError", 1)
    /\ SleepDelays(retry_call.wrapped)
           = <<2 * TicksPerSecond, 4 * TicksPerSecond>>
    /\ SleepDelays(retry_call.progress)
           = <<2 * TicksPerSecond, 4 * TicksPerSecond>>

\* ------------------------------------ claims on signatures by format
\* An InstallerThread with signature checking on that passed validation and
\* is given what verify_package returned for the call h.
AfterVerification(h) ==
    run_verify([NewThread(1, h.package_path, FALSE, h.check_signature,
                          h.checksum)
                    EXCEPT !.valid = "ok", !.pc = "verify"],
               h.result.success)

\* C39: with the signature check requested, verify_package fails for every
\* .snap and .flatpak: no signature tool is run and, when the signature
\* step is reached, the failure is the unsupported-format one; a thread
\* given that result emits finished(False) and never calls install_package.
\* For an .rpm the signature counts as valid only if "rpm --checksig" was
\* run, exited with status 0 and printed "OK".
C39_SignatureByFormat ==
    (VerifyReturned /\ handler_call.check_signature)
    => LET h == handler_call
           rs == h.result
           d == rs.details
           package_type == Lower(h.package_path.ext)
           reached == \E i \in 1..Len(d.checks) : d.checks[i] = "signature"
       IN  /\ package_type \in {".snap", ".flatpak"}
              => /\ ~rs.success
                 /\ d.signature_valid # "True"
                 /\ \A i \in 1..Len(d.tools) :
                        d.tools[i].tool \notin {"gpg", "rpm_checksig"}
                 /\ reached
                    => /\ d.signature_valid = "False"
                       /\ rs.message = [tag |-> "signature_failed",
                                        msg |-> "unsupported_type"]
                       /\ d.tools = <<>>
                 /\ AfterVerification(h).pc = "emitted"
                 /\ ~AfterVerification(h).success
                 /\ AfterVerification(h).install_calls = 0
           /\ package_type = ".rpm"
              => /\ d.signature_valid = "True"
                    => /\ h.sig_tool = "exit0"
                       /\ d.tools[1] = [tool |-> "rpm_checksig",
                                        sig_path |-> "-"]
                 /\ (reached /\ h.sig_tool = "exit0")
                    => d.signature_valid = "True"

\* C39 witness: the .snap file, large enough and without a checksum, signature
\* requested: the call failed at the signature step with the
\* unsupported-format message and ran no tool.
C39_Witness ==
    /\ VerifyReturned
    /\ handler_call.package_path = PathSnap
    /\ handler_call.check_signature
    /\ handler_call.checksum = "None"
    /\ handler_call.sig_tool = "exit0"
    /\ handler_call.result.details.checks = <<"exists", "size", "signature">>
    /\ handler_call.result.message
           = [tag |-> "signature_failed", msg |-> "unsupported_type"]
    /\ handler_call.result.details.tools = <<>>

====
